---- MODULE Spec2Model ----
(***************************************************************************)
(* Model of the VIR expression algebra of prusti-viper                     *)
(* (src/prusti-viper/src/encoder/vir/ast/expr.rs): the Expr variants,      *)
(* structural equality and hashing, the place algebra, the ExprFolder and  *)
(* ExprWalker traversal protocols and the transformations derived from     *)
(* them.  An expression is a record whose field k is the variant; a        *)
(* Vec<Expr> is a sequence; a String name is a sequence of tokens.         *)
(***************************************************************************)
EXTENDS Integers, Sequences, FiniteSets, TLC

VARIABLES
    expr,   \* the expression built so far (the receiver of the next call)
    op,     \* the last call made on expr, with its arguments
    out     \* what that call returned

vars == <<expr, op, out>>

\* Largest number of wrapping constructor calls made on a seed expression.
MaxDepth == 2

-----------------------------------------------------------------------------
(* Value types (encoder::vir::ast: Position, Type, LocalVar, Field,        *)
(* PermAmount, Trigger)                                                    *)

DefaultPos == "default"
Positions == {DefaultPos, "p1"}

Type_Int == [id |-> "Int", name |-> <<"int">>]
Type_Bool == [id |-> "Bool", name |-> <<"bool">>]
TypedRef(name) == [id |-> "TypedRef", name |-> name]

\* Two types are equal if they are the same type of the same name.
Type_eq(s, t) == s = t

Type_is_ref(typ) == typ.id = "TypedRef"
Type_name(typ) == typ.name
Type_variant(typ, index) == TypedRef(Type_name(typ) \o <<index>>)

LocalVar(name, typ) == [name |-> name, typ |-> typ]
Field_new(name, typ) == [name |-> name, typ |-> typ]

PermAmount_Read == "Read"
PermAmount_Write == "Write"
PermAmount_None == "None"
PermAmount_Remaining == "Remaining"

\* The amounts a specification may hold.
is_valid_for_specs(perm_amount) ==
    perm_amount \in {PermAmount_None, PermAmount_Read, PermAmount_Write}

NoBorrow == "None"
NoVariant == "None"

\* Option::None of an Option holding a struct or an expression.
None == [none |-> TRUE]

\* enum Const
Const_Bool(b) == [t |-> "Bool", b |-> b]
Const_Int(i) == [t |-> "Int", i |-> i]

\* The value a call leaves behind when an assertion fails or a panic is raised.
Panic == [k |-> "Panic"]

-----------------------------------------------------------------------------
(* enum Expr                                                               *)

Expr_Local(v, p) == [k |-> "Local", v |-> v, pos |-> p]
Expr_Variant(base, variant, p) == [k |-> "Variant", base |-> base, field |-> variant, pos |-> p]
Expr_Field(base, field, p) == [k |-> "Field", base |-> base, field |-> field, pos |-> p]
Expr_AddrOf(base, typ, p) == [k |-> "AddrOf", base |-> base, typ |-> typ, pos |-> p]
Expr_LabelledOld(label, base, p) == [k |-> "LabelledOld", label |-> label, base |-> base, pos |-> p]
Expr_Const(value, p) == [k |-> "Const", value |-> value, pos |-> p]
Expr_MagicWand(lhs, rhs, borrow, p) ==
    [k |-> "MagicWand", lhs |-> lhs, rhs |-> rhs, borrow |-> borrow, pos |-> p]
Expr_PredicateAccessPredicate(name, arg, perm, p) ==
    [k |-> "PredicateAccessPredicate", name |-> name, arg |-> arg, perm |-> perm, pos |-> p]
Expr_FieldAccessPredicate(base, perm, p) ==
    [k |-> "FieldAccessPredicate", base |-> base, perm |-> perm, pos |-> p]
Expr_UnaryOp(kind, arg, p) == [k |-> "UnaryOp", op |-> kind, arg |-> arg, pos |-> p]
Expr_BinOp(kind, left, right, p) ==
    [k |-> "BinOp", op |-> kind, left |-> left, right |-> right, pos |-> p]
Expr_Unfolding(name, args, base, perm, variant, p) ==
    [k |-> "Unfolding", name |-> name, args |-> args, base |-> base, perm |-> perm,
     variant |-> variant, pos |-> p]
Expr_Cond(guard, then_expr, else_expr, p) ==
    [k |-> "Cond", guard |-> guard, then_expr |-> then_expr, else_expr |-> else_expr, pos |-> p]
Expr_ForAll(vs, triggers, body, p) ==
    [k |-> "ForAll", vars |-> vs, triggers |-> triggers, body |-> body, pos |-> p]
Expr_LetExpr(v, def, body, p) ==
    [k |-> "LetExpr", v |-> v, def |-> def, body |-> body, pos |-> p]
Expr_FuncApp(name, args, formal_args, return_type, p) ==
    [k |-> "FuncApp", name |-> name, args |-> args, formal_args |-> formal_args,
     return_type |-> return_type, pos |-> p]

\* From<bool> for Expr: a Boolean constant at the default position.
Expr_from_bool(b) == Expr_Const(Const_Bool(b), DefaultPos)

\* From<i64> for Expr: an integer constant at the default position.
Expr_from_int(i) == Expr_Const(Const_Int(i), DefaultPos)

-----------------------------------------------------------------------------
(* impl PartialEq for Expr, impl Hash for Expr                             *)

RECURSIVE ExprEq(_, _)

\* Vec<Expr> == Vec<Expr>
VecEq(s, t) ==
    /\ Len(s) = Len(t)
    /\ \A i \in 1..Len(s) : ExprEq(s[i], t[i])

\* Vec<Trigger> == Vec<Trigger>, a Trigger being a Vec<Expr>
TriggersEq(s, t) ==
    /\ Len(s) = Len(t)
    /\ \A i \in 1..Len(s) : VecEq(s[i], t[i])

\* The derived, field-by-field comparison, Position included.
ExprEq_derived(a, b) == a = b

ExprEq(a, b) ==
    IF a.k # b.k THEN FALSE
    ELSE CASE a.k = "Local" -> a.v = b.v
           [] a.k = "Variant" -> ExprEq(a.base, b.base) /\ a.field = b.field
           [] a.k = "Field" -> ExprEq(a.base, b.base) /\ a.field = b.field
           [] a.k = "AddrOf" -> ExprEq(a.base, b.base) /\ a.typ = b.typ
           [] a.k = "LabelledOld" -> a.label = b.label /\ ExprEq(a.base, b.base)
           [] a.k = "Const" -> a.value = b.value
           [] a.k = "MagicWand" ->
                ExprEq(a.lhs, b.lhs) /\ ExprEq(a.rhs, b.rhs) /\ a.borrow = b.borrow
           [] a.k = "PredicateAccessPredicate" ->
                a.name = b.name /\ ExprEq(a.arg, b.arg) /\ a.perm = b.perm
           [] a.k = "FieldAccessPredicate" -> ExprEq(a.base, b.base) /\ a.perm = b.perm
           [] a.k = "UnaryOp" -> a.op = b.op /\ ExprEq(a.arg, b.arg)
           [] a.k = "BinOp" ->
                a.op = b.op /\ ExprEq(a.left, b.left) /\ ExprEq(a.right, b.right)
           [] a.k = "Cond" ->
                /\ ExprEq(a.guard, b.guard)
                /\ ExprEq(a.then_expr, b.then_expr)
                /\ ExprEq(a.else_expr, b.else_expr)
           [] a.k = "ForAll" ->
                /\ a.vars = b.vars
                /\ TriggersEq(a.triggers, b.triggers)
                /\ ExprEq(a.body, b.body)
           [] a.k = "LetExpr" ->
                a.v = b.v /\ ExprEq(a.def, b.def) /\ ExprEq(a.body, b.body)
           [] a.k = "FuncApp" -> a.name = b.name /\ VecEq(a.args, b.args)
           [] a.k = "Unfolding" ->
                /\ a.name = b.name
                /\ VecEq(a.args, b.args)
                /\ ExprEq(a.base, b.base)
                /\ a.perm = b.perm
                /\ a.variant = b.variant
           [] OTHER -> FALSE

RECURSIVE Hash(_)

\* What hashing a Vec<Expr> feeds to the Hasher: the length, then each element.
VecHash(s) == <<Len(s), [i \in 1..Len(s) |-> Hash(s[i])]>>

TriggersHash(s) == <<Len(s), [i \in 1..Len(s) |-> VecHash(s[i])]>>

\* What hashing an Expr feeds to the Hasher: the discriminant, then the
\* components the variant's arm names.
Hash(a) ==
    CASE a.k = "Local" -> <<a.k, a.v>>
      [] a.k = "Variant" -> <<a.k, Hash(a.base), a.field>>
      [] a.k = "Field" -> <<a.k, Hash(a.base), a.field>>
      [] a.k = "AddrOf" -> <<a.k, Hash(a.base), a.typ>>
      [] a.k = "LabelledOld" -> <<a.k, a.label, Hash(a.base)>>
      [] a.k = "Const" -> <<a.k, a.value>>
      [] a.k = "MagicWand" -> <<a.k, Hash(a.lhs), Hash(a.rhs), a.borrow>>
      [] a.k = "PredicateAccessPredicate" -> <<a.k, a.name, Hash(a.arg), a.perm>>
      [] a.k = "FieldAccessPredicate" -> <<a.k, Hash(a.base), a.perm>>
      [] a.k = "UnaryOp" -> <<a.k, a.op, Hash(a.arg)>>
      [] a.k = "BinOp" -> <<a.k, a.op, Hash(a.left), Hash(a.right)>>
      [] a.k = "Cond" -> <<a.k, Hash(a.guard), Hash(a.then_expr), Hash(a.else_expr)>>
      [] a.k = "ForAll" -> <<a.k, a.vars, TriggersHash(a.triggers), Hash(a.body)>>
      [] a.k = "LetExpr" -> <<a.k, a.v, Hash(a.def), Hash(a.body)>>
      [] a.k = "FuncApp" -> <<a.k, a.name, VecHash(a.args)>>
      [] a.k = "Unfolding" ->
            <<a.k, a.name, VecHash(a.args), Hash(a.base), a.perm, a.variant>>

-----------------------------------------------------------------------------
(* impl Expr: positions, place predicates and accessors                    *)

pos(a) == a.pos

set_pos(a, p) == [a EXCEPT !.pos = p]

RECURSIVE is_place(_)
is_place(a) ==
    CASE a.k = "Local" -> TRUE
      [] a.k \in {"Variant", "Field", "AddrOf", "LabelledOld", "Unfolding"} -> is_place(a.base)
      [] OTHER -> FALSE

RECURSIVE get_type(_)
get_type(a) ==
    CASE a.k = "Local" -> a.v.typ
      [] a.k \in {"Variant", "Field"} -> a.field.typ
      [] a.k = "AddrOf" -> a.typ
      [] a.k \in {"LabelledOld", "Unfolding"} -> get_type(a.base)
      [] OTHER -> Panic

get_parent(a) ==
    CASE a.k = "Local" -> None
      [] a.k \in {"Variant", "Field", "AddrOf"} -> a.base
      [] a.k \in {"LabelledOld", "Unfolding"} -> None
      [] OTHER -> Panic

RECURSIVE get_base(_)
get_base(a) ==
    CASE a.k = "Local" -> a.v
      [] a.k \in {"LabelledOld", "Unfolding"} -> get_base(a.base)
      [] a.k \in {"Variant", "Field", "AddrOf"} -> get_base(get_parent(a))
      [] OTHER -> Panic

\* old that wraps whatever it is given.
old_wrapping_all(a, label) == Expr_LabelledOld(label, a, DefaultPos)

old(a, label) ==
    CASE a.k = "Local" -> a
      [] a.k = "LabelledOld" -> a
      [] OTHER -> Expr_LabelledOld(label, a, DefaultPos)

\* enum PlaceComponent
PlaceComponent_Field(f, p) == [k |-> "Field", field |-> f, pos |-> p]
PlaceComponent_Variant(f, p) == [k |-> "Variant", field |-> f, pos |-> p]

\* explode_place that lists the outermost component first.
RECURSIVE explode_place_outermost_first(_)
explode_place_outermost_first(a) ==
    CASE a.k = "Variant" ->
            LET b == explode_place_outermost_first(a.base)
            IN  <<b[1], <<PlaceComponent_Variant(a.field, a.pos)>> \o b[2]>>
      [] a.k = "Field" ->
            LET b == explode_place_outermost_first(a.base)
            IN  <<b[1], <<PlaceComponent_Field(a.field, a.pos)>> \o b[2]>>
      [] OTHER -> <<a, <<>> >>

\* The pair of the base and the components, innermost first.
RECURSIVE explode_place(_)
explode_place(a) ==
    CASE a.k = "Variant" ->
            LET b == explode_place(a.base)
            IN  <<b[1], Append(b[2], PlaceComponent_Variant(a.field, a.pos))>>
      [] a.k = "Field" ->
            LET b == explode_place(a.base)
            IN  <<b[1], Append(b[2], PlaceComponent_Field(a.field, a.pos))>>
      [] OTHER -> <<a, <<>> >>

\* components.into_iter().fold(self, ...)
RECURSIVE reconstruct_place(_, _)
reconstruct_place(a, components) ==
    IF components = <<>> THEN a
    ELSE LET component == Head(components)
             acc == IF component.k = "Variant"
                    THEN Expr_Variant(a, component.field, component.pos)
                    ELSE Expr_Field(a, component.field, component.pos)
         IN  reconstruct_place(acc, Tail(components))

\* A u32 and a Vec a call returns, where the call may panic instead.
U32(n) == [u32 |-> n]
Vec(s) == [vec |-> s]

\* place_depth that counts the steps above the Local and not the Local.
RECURSIVE place_depth_of_steps(_)
place_depth_of_steps(a) ==
    CASE a.k = "Local" -> U32(0)
      [] a.k \in {"Variant", "Field", "AddrOf", "LabelledOld", "Unfolding"} ->
            LET d == place_depth_of_steps(a.base)
            IN  IF d = Panic THEN Panic ELSE U32(d.u32 + 1)
      [] OTHER -> Panic

RECURSIVE place_depth(_)
place_depth(a) ==
    CASE a.k = "Local" -> U32(1)
      [] a.k \in {"Variant", "Field", "AddrOf", "LabelledOld", "Unfolding"} ->
            LET d == place_depth(a.base)
            IN  IF d = Panic THEN Panic ELSE U32(d.u32 + 1)
      [] OTHER -> Panic

\* has_prefix that looks at the place and at its parent only.
has_prefix_one_step(a, other) ==
    IF ExprEq(a, other) THEN TRUE
    ELSE LET parent == get_parent(a)
         IN  CASE parent = Panic -> Panic
               [] parent = None -> FALSE
               [] OTHER -> ExprEq(parent, other)

RECURSIVE has_prefix(_, _)
has_prefix(a, other) ==
    IF ExprEq(a, other) THEN TRUE
    ELSE LET parent == get_parent(a)
         IN  CASE parent = Panic -> Panic
               [] parent = None -> FALSE
               [] OTHER -> has_prefix(parent, other)

has_proper_prefix(a, other) == ~ ExprEq(a, other) /\ has_prefix(a, other)

\* all_prefixes that lists the place itself first.
RECURSIVE all_prefixes_longest_first(_)
all_prefixes_longest_first(a) ==
    LET parent == get_parent(a)
        res == CASE parent = Panic -> Panic
                 [] parent = None -> Vec(<<>>)
                 [] OTHER -> all_prefixes_longest_first(parent)
    IN  IF res = Panic THEN Panic ELSE Vec(<<a>> \o res.vec)

\* all_prefixes for all_proper_prefixes, which is the prefixes of the parent.
RECURSIVE all_prefixes(_)
all_prefixes(a) ==
    LET parent == get_parent(a)
        res == CASE parent = Panic -> Panic
                 [] parent = None -> Vec(<<>>)
                 [] OTHER -> all_prefixes(parent)
    IN  IF res = Panic THEN Panic ELSE Vec(Append(res.vec, a))

all_proper_prefixes(a) ==
    LET parent == get_parent(a)
    IN  CASE parent = Panic -> Panic
          [] parent = None -> Vec(<<>>)
          [] OTHER -> all_prefixes(parent)

-----------------------------------------------------------------------------
(* typaram::Substs, as far as PlaceReplacer uses it: a substitution        *)
(* learned from two type names, applied to a type name.                    *)

Substs_learn(from, to) == [from |-> from, to |-> to]

Substs_apply(ts, name) == IF name = ts.from THEN ts.to ELSE name

local_type(a) ==
    IF a.k = "Local" /\ a.v.typ.id = "TypedRef" THEN a.v.typ.name ELSE Panic

\* String::replace on a name: every occurrence of the part from becomes to.
RECURSIVE String_replace(_, _, _)
String_replace(name, from, to) ==
    IF name = <<>> THEN <<>>
    ELSE (IF Head(name) = from THEN to ELSE <<Head(name)>>)
         \o String_replace(Tail(name), from, to)

\* for (typ, subst) in substs { name = name.replace(typ, subst) }, substs
\* being the entries of the table in the order the iteration yields them.
RECURSIVE patch_name(_, _)
patch_name(name, substs) ==
    IF substs = <<>> THEN name
    ELSE patch_name(String_replace(name, Head(substs).typ, Head(substs).subst), Tail(substs))

\* Type::patch: the name of a reference type is patched, any other type is
\* as it was.
Type_patch(typ, substs) ==
    IF Type_is_ref(typ) THEN TypedRef(patch_name(Type_name(typ), substs)) ELSE typ

-----------------------------------------------------------------------------
(* trait ExprFolder.  A folder is a record whose field kind names the      *)
(* implementing struct; the other fields are the struct's fields.  Every   *)
(* method returns the pair of the rebuilt expression x and the folder w    *)
(* as the call leaves it.                                                  *)

R(x, w) == [x |-> x, w |-> w]

RECURSIVE fold(_, _)
RECURSIVE default_fold_expr(_, _)
RECURSIVE replace_place(_, _, _)

fold_boxed(w, a) == fold(w, a)

\* args.into_iter().map(|e| self.fold(e)).collect()
RECURSIVE fold_vec(_, _)
fold_vec(w, s) ==
    IF s = <<>> THEN R(<<>>, w)
    ELSE LET h == fold(w, Head(s))
             t == fold_vec(h.w, Tail(s))
         IN  R(<<h.x>> \o t.x, t.w)

\* Trigger::replace_place: every expression of the trigger is rewritten.
Trigger_replace_place(t, target, replacement) ==
    [i \in 1..Len(t) |-> replace_place(t[i], target, replacement)]

\* TypePatcher (patch_types) overrides fold_local, fold_func_app and
\* fold_predicate_access_predicate; every other folder has the default.
fold_local(w, v, p) ==
    IF w.kind = "TypePatcher"
    THEN R(Expr_Local([v EXCEPT !.typ = Type_patch(v.typ, w.substs)], p), w)
    ELSE R(Expr_Local(v, p), w)

fold_variant(w, base, variant, p) ==
    LET b == fold_boxed(w, base) IN R(Expr_Variant(b.x, variant, p), b.w)

fold_field(w, base, f, p) ==
    LET b == fold_boxed(w, base) IN R(Expr_Field(b.x, f, p), b.w)

fold_addr_of(w, base, t, p) ==
    LET b == fold_boxed(w, base) IN R(Expr_AddrOf(b.x, t, p), b.w)

fold_const(w, x, p) == R(Expr_Const(x, p), w)

fold_magic_wand(w, lhs, rhs, borrow, p) ==
    LET l == fold_boxed(w, lhs)
        r == fold_boxed(l.w, rhs)
    IN  R(Expr_MagicWand(l.x, r.x, borrow, p), r.w)

\* A failed assert!, an unreachable!: the folder is left marked and the call
\* that started it returns nothing but Panic.
Aborted(w) == R(Panic, [w EXCEPT !.panicked = TRUE])

\* fold_predicate_access_predicate of ReadPermRemover with Read and Write
\* exchanged.
fold_predicate_access_predicate_removing_write(w, name, arg, perm_amount, p) ==
    IF w.kind = "ReadPermRemover"
    THEN IF ~ is_valid_for_specs(perm_amount) THEN Aborted(w)
         ELSE CASE perm_amount = PermAmount_Read ->
                      R(Expr_PredicateAccessPredicate(name, arg, perm_amount, p), w)
                [] perm_amount = PermAmount_Write -> R(Expr_from_bool(TRUE), w)
                [] OTHER -> Aborted(w)
    ELSE LET b == fold_boxed(w, arg)
         IN  R(Expr_PredicateAccessPredicate(name, b.x, perm_amount, p), b.w)

\* ReadPermRemover (remove_read_permissions) overrides the two permission
\* hooks; every other folder has the default.
fold_predicate_access_predicate(w, name, arg, perm_amount, p) ==
    IF w.kind = "ReadPermRemover"
    THEN IF ~ is_valid_for_specs(perm_amount) THEN Aborted(w)
         ELSE CASE perm_amount = PermAmount_Write ->
                      R(Expr_PredicateAccessPredicate(name, arg, perm_amount, p), w)
                [] perm_amount = PermAmount_Read -> R(Expr_from_bool(TRUE), w)
                [] OTHER -> Aborted(w)
    ELSE IF w.kind = "TypePatcher"
    THEN LET b == fold_boxed(w, arg)
         IN  R(Expr_PredicateAccessPredicate(patch_name(name, w.substs), b.x,
                                             perm_amount, p),
               b.w)
    ELSE LET b == fold_boxed(w, arg)
         IN  R(Expr_PredicateAccessPredicate(name, b.x, perm_amount, p), b.w)

fold_field_access_predicate(w, receiver, perm_amount, p) ==
    IF w.kind = "ReadPermRemover"
    THEN IF ~ is_valid_for_specs(perm_amount) THEN Aborted(w)
         ELSE CASE perm_amount = PermAmount_Write ->
                      R(Expr_FieldAccessPredicate(receiver, perm_amount, p), w)
                [] perm_amount = PermAmount_Read -> R(Expr_from_bool(TRUE), w)
                [] OTHER -> Aborted(w)
    ELSE LET b == fold_boxed(w, receiver)
         IN  R(Expr_FieldAccessPredicate(b.x, perm_amount, p), b.w)

fold_unary_op(w, x, y, p) ==
    LET b == fold_boxed(w, y) IN R(Expr_UnaryOp(x, b.x, p), b.w)

fold_bin_op(w, kind, first, second, p) ==
    LET l == fold_boxed(w, first)
        r == fold_boxed(l.w, second)
    IN  R(Expr_BinOp(kind, l.x, r.x, p), r.w)

fold_unfolding(w, name, args, base, perm, variant, p) ==
    LET as == fold_vec(w, args)
        b == fold_boxed(as.w, base)
    IN  R(Expr_Unfolding(name, as.x, b.x, perm, variant, p), b.w)

fold_cond(w, guard, then_expr, else_expr, p) ==
    LET g == fold_boxed(w, guard)
        t == fold_boxed(g.w, then_expr)
        f == fold_boxed(t.w, else_expr)
    IN  R(Expr_Cond(g.x, t.x, f.x, p), f.w)

fold_let_expr(w, v, def, body, p) ==
    LET d == fold_boxed(w, def)
        b == fold_boxed(d.w, body)
    IN  R(Expr_LetExpr(v, d.x, b.x, p), b.w)

\* fold_func_app that rebuilds the node around its unfolded arguments.
fold_func_app_keeping_args(w, name, args, formal_args, return_type, p) ==
    R(Expr_FuncApp(name, args, formal_args, return_type, p), w)

\* fold_func_app of TypePatcher that patches the return type as well.
fold_func_app_patching_return_type(w, name, args, formal_args, return_type, p) ==
    IF w.kind = "TypePatcher"
    THEN LET fs == [n \in 1..Len(formal_args) |->
                       [formal_args[n] EXCEPT !.typ = Type_patch(@, w.substs)]]
             as == fold_vec(w, args)
         IN  R(Expr_FuncApp(name, as.x, fs, Type_patch(return_type, w.substs), p), as.w)
    ELSE LET as == fold_vec(w, args)
         IN  R(Expr_FuncApp(name, as.x, formal_args, return_type, p), as.w)

fold_func_app(w, name, args, formal_args, return_type, p) ==
    IF w.kind = "TypePatcher"
    THEN LET fs == [n \in 1..Len(formal_args) |->
                       [formal_args[n] EXCEPT !.typ = Type_patch(@, w.substs)]]
             as == fold_vec(w, args)
         IN  R(Expr_FuncApp(name, as.x, fs, return_type, p), as.w)
    ELSE LET as == fold_vec(w, args)
         IN  R(Expr_FuncApp(name, as.x, formal_args, return_type, p), as.w)

\* fold_forall without the check for a shadowing bound variable.
fold_forall_no_shadowing(w, vs, triggers, body, p) ==
    IF w.kind = "PlaceReplacer"
    THEN LET ts == [n \in 1..Len(triggers) |->
                       Trigger_replace_place(triggers[n], w.target, w.replacement)]
             b == fold_boxed(w, body)
         IN  R(Expr_ForAll(vs, ts, b.x, p), b.w)
    ELSE LET b == fold_boxed(w, body) IN R(Expr_ForAll(vs, triggers, b.x, p), b.w)

\* PlaceReplacer overrides fold_forall; every other folder has the default.
fold_forall(w, vs, triggers, body, p) ==
    IF w.kind = "PlaceReplacer"
    THEN IF \E i \in 1..Len(vs) : vs[i] = get_base(w.target)
         THEN R(Expr_ForAll(vs, triggers, body, p), w)
         ELSE LET ts == [i \in 1..Len(triggers) |->
                            Trigger_replace_place(triggers[i], w.target, w.replacement)]
                  b == fold_boxed(w, body)
              IN  R(Expr_ForAll(vs, ts, b.x, p), b.w)
    ELSE LET b == fold_boxed(w, body) IN R(Expr_ForAll(vs, triggers, b.x, p), b.w)

\* fold_labelled_old of a RedundantOldRemover that puts the node back itself
\* instead of asking old() to.
fold_labelled_old_wrapping_always(w, label, body, p) ==
    CASE w.kind = "OldLabelReplacer" ->
            IF w.f[label] # "None"
            THEN R(set_pos(old(body, w.f[label]), p), w)
            ELSE R(body, w)
      [] w.kind = "RedundantOldRemover" ->
            LET old_current_label == w.current_label
                nb == default_fold_expr([w EXCEPT !.current_label = label], body)
                new_expr == IF label = old_current_label
                            THEN nb.x
                            ELSE Expr_LabelledOld(label, nb.x, p)
            IN  R(new_expr, [nb.w EXCEPT !.current_label = old_current_label])
      [] OTHER ->
            LET b == fold_boxed(w, body) IN R(Expr_LabelledOld(label, b.x, p), b.w)

\* fold_labelled_old as the trait provides it, without any override.
fold_labelled_old_not_overridden(w, label, body, p) ==
    LET b == fold_boxed(w, body) IN R(Expr_LabelledOld(label, b.x, p), b.w)

\* OldLabelReplacer (map_labels) and RedundantOldRemover (remove_redundant_old)
\* override fold_labelled_old; every other folder has the default.
fold_labelled_old(w, label, body, p) ==
    CASE w.kind = "OldLabelReplacer" ->
            IF w.f[label] # "None"
            THEN R(set_pos(old(body, w.f[label]), p), w)
            ELSE R(body, w)
      [] w.kind = "RedundantOldRemover" ->
            LET old_current_label == w.current_label
                nb == default_fold_expr([w EXCEPT !.current_label = label], body)
                new_expr == IF label = old_current_label
                            THEN nb.x
                            ELSE set_pos(old(nb.x, label), p)
            IN  R(new_expr, [nb.w EXCEPT !.current_label = old_current_label])
      [] OTHER ->
            LET b == fold_boxed(w, body) IN R(Expr_LabelledOld(label, b.x, p), b.w)

default_fold_expr(w, a) ==
    CASE a.k = "Local" -> fold_local(w, a.v, a.pos)
      [] a.k = "Variant" -> fold_variant(w, a.base, a.field, a.pos)
      [] a.k = "Field" -> fold_field(w, a.base, a.field, a.pos)
      [] a.k = "AddrOf" -> fold_addr_of(w, a.base, a.typ, a.pos)
      [] a.k = "Const" -> fold_const(w, a.value, a.pos)
      [] a.k = "LabelledOld" -> fold_labelled_old(w, a.label, a.base, a.pos)
      [] a.k = "MagicWand" -> fold_magic_wand(w, a.lhs, a.rhs, a.borrow, a.pos)
      [] a.k = "PredicateAccessPredicate" ->
            fold_predicate_access_predicate(w, a.name, a.arg, a.perm, a.pos)
      [] a.k = "FieldAccessPredicate" -> fold_field_access_predicate(w, a.base, a.perm, a.pos)
      [] a.k = "UnaryOp" -> fold_unary_op(w, a.op, a.arg, a.pos)
      [] a.k = "BinOp" -> fold_bin_op(w, a.op, a.left, a.right, a.pos)
      [] a.k = "Unfolding" ->
            fold_unfolding(w, a.name, a.args, a.base, a.perm, a.variant, a.pos)
      [] a.k = "Cond" -> fold_cond(w, a.guard, a.then_expr, a.else_expr, a.pos)
      [] a.k = "ForAll" -> fold_forall(w, a.vars, a.triggers, a.body, a.pos)
      [] a.k = "LetExpr" -> fold_let_expr(w, a.v, a.def, a.body, a.pos)
      [] a.k = "FuncApp" ->
            fold_func_app(w, a.name, a.args, a.formal_args, a.return_type, a.pos)

\* DefaultPosReplacer::fold (set_default_pos)
DefaultPosReplacer_fold(w, a) ==
    LET r == default_fold_expr(w, a)
    IN  IF pos(r.x) = DefaultPos THEN R(set_pos(r.x, w.new_pos), r.w) ELSE r

\* PlaceReplacer::fold (replace_place)
PlaceReplacer_fold(w, a) ==
    IF is_place(a) /\ ExprEq(a, w.target)
    THEN R(w.replacement, [w EXCEPT !.subst = TRUE])
    ELSE LET r == default_fold_expr(w, a)
         IN  IF r.x.k = "Field"
             THEN IF r.w.typaram_substs # None /\ r.w.subst /\ Type_is_ref(r.x.field.typ)
                  THEN R(Expr_Field(r.x.base,
                                    Field_new(r.x.field.name,
                                              TypedRef(Substs_apply(r.w.typaram_substs,
                                                                    Type_name(r.x.field.typ)))),
                                    r.x.pos),
                         r.w)
                  ELSE r
             ELSE R(r.x, [r.w EXCEPT !.subst = FALSE])

\* PermConjunctionFilter::fold that rebuilds every BinOp, not only the conjunctions.
PermConjunctionFilter_fold_any_bin_op(w, a) ==
    CASE a.k = "PredicateAccessPredicate" -> R(a, w)
      [] a.k = "FieldAccessPredicate" -> R(a, w)
      [] a.k = "BinOp" -> fold_bin_op(w, a.op, a.left, a.right, a.pos)
      [] OTHER -> R(Expr_from_bool(TRUE), w)

\* PermConjunctionFilter::fold that answers an Unfolding by its body.
PermConjunctionFilter_fold_unwrapping(w, a) ==
    CASE a.k = "PredicateAccessPredicate" -> R(a, w)
      [] a.k = "FieldAccessPredicate" -> R(a, w)
      [] a.k = "BinOp" /\ a.op = "And" -> fold_bin_op(w, "And", a.left, a.right, a.pos)
      [] a.k = "Unfolding" -> R(a.base, w)
      [] OTHER -> R(Expr_from_bool(TRUE), w)

\* PermConjunctionFilter::fold (filter_perm_conjunction)
PermConjunctionFilter_fold(w, a) ==
    CASE a.k = "PredicateAccessPredicate" -> R(a, w)
      [] a.k = "FieldAccessPredicate" -> R(a, w)
      [] a.k = "BinOp" /\ a.op = "And" -> fold_bin_op(w, "And", a.left, a.right, a.pos)
      [] OTHER -> R(Expr_from_bool(TRUE), w)

\* ExprFolder::fold, with the overrides of the folders that have one.
fold(w, a) ==
    CASE w.kind = "DefaultPosReplacer" -> DefaultPosReplacer_fold(w, a)
      [] w.kind = "PlaceReplacer" -> PlaceReplacer_fold(w, a)
      [] w.kind = "PermConjunctionFilter" -> PermConjunctionFilter_fold(w, a)
      [] w.kind = "Tracer" -> default_fold_expr([w EXCEPT !.visited = Append(@, a)], a)
      [] OTHER -> default_fold_expr(w, a)

-----------------------------------------------------------------------------
(* The transformations built on ExprFolder                                 *)

set_default_pos(a, p) == fold([kind |-> "DefaultPosReplacer", new_pos |-> p], a).x

map_labels(a, f) == fold([kind |-> "OldLabelReplacer", f |-> f], a).x

\* replace_place without the assertion on the two types.
replace_place_unchecked(a, target, replacement) ==
    LET typaram_substs ==
            IF target.k = "Local" /\ replacement.k = "Local"
               /\ Type_is_ref(target.v.typ) /\ Type_is_ref(replacement.v.typ)
            THEN Substs_learn(local_type(target), local_type(replacement))
            ELSE None
    IN  fold([kind |-> "PlaceReplacer", target |-> target, replacement |-> replacement,
              typaram_substs |-> typaram_substs, subst |-> FALSE], a).x

replace_place(a, target, replacement) ==
    IF is_place(replacement) /\ ~ Type_eq(get_type(target), get_type(replacement))
    THEN Panic
    ELSE LET typaram_substs ==
                 IF target.k = "Local" /\ replacement.k = "Local"
                    /\ Type_is_ref(target.v.typ) /\ Type_is_ref(replacement.v.typ)
                 THEN Substs_learn(local_type(target), local_type(replacement))
                 ELSE None
         IN  fold([kind |-> "PlaceReplacer", target |-> target, replacement |-> replacement,
                   typaram_substs |-> typaram_substs, subst |-> FALSE], a).x

remove_redundant_old(a) ==
    fold([kind |-> "RedundantOldRemover", current_label |-> "None"], a).x

filter_perm_conjunction(a) == fold([kind |-> "PermConjunctionFilter"], a).x

patch_types(a, substs) == fold([kind |-> "TypePatcher", substs |-> substs], a).x

remove_read_permissions(a) ==
    LET r == fold([kind |-> "ReadPermRemover", panicked |-> FALSE], a)
    IN  IF r.w.panicked THEN Panic ELSE r.x

-----------------------------------------------------------------------------
(* trait ExprWalker.  A walker is a record whose field kind names the      *)
(* implementing struct; every method returns the walker as the call        *)
(* leaves it.                                                              *)

acc_permission(place, perm) == Expr_FieldAccessPredicate(place, perm, DefaultPos)

RECURSIVE walk(_, _)

\* for arg in args { self.walk(arg) }
RECURSIVE walk_vec(_, _)
walk_vec(w, s) ==
    IF s = <<>> THEN w ELSE walk_vec(walk(w, Head(s)), Tail(s))

walk_local_var(w, v) == w

\* for var in vars { self.walk_local_var(var) }
RECURSIVE walk_local_vars(_, _)
walk_local_vars(w, vs) ==
    IF vs = <<>> THEN w ELSE walk_local_vars(walk_local_var(w, Head(vs)), Tail(vs))

walk_local(w, v, p) == walk_local_var(w, v)

\* Collector (compute_footprint) overrides walk_variant, walk_field and
\* walk_labelled_old.
walk_variant(w, base, variant, p) ==
    IF w.kind = "Collector"
    THEN LET w1 == walk(w, base)
             perm == acc_permission(Expr_Variant(base, variant, p), w1.perm_amount)
         IN  [w1 EXCEPT !.perms = Append(@, perm)]
    ELSE walk(w, base)

\* Collector::walk_field that records the permission before walking the receiver.
walk_field_push_first(w, receiver, f, p) ==
    IF w.kind = "Collector"
    THEN LET perm == acc_permission(Expr_Field(receiver, f, p), w.perm_amount)
         IN  walk([w EXCEPT !.perms = Append(@, perm)], receiver)
    ELSE walk(w, receiver)

walk_field(w, receiver, f, p) ==
    IF w.kind = "Collector"
    THEN LET w1 == walk(w, receiver)
             perm == acc_permission(Expr_Field(receiver, f, p), w1.perm_amount)
         IN  [w1 EXCEPT !.perms = Append(@, perm)]
    ELSE walk(w, receiver)

walk_addr_of(w, receiver, typ, p) == walk(w, receiver)

walk_const(w, c, p) == w

walk_labelled_old(w, label, body, p) ==
    IF w.kind = "Collector" THEN w ELSE walk(w, body)

walk_magic_wand(w, lhs, rhs, borrow, p) == walk(walk(w, lhs), rhs)

\* PurityFinder (is_pure) overrides the two permission hooks.
walk_predicate_access_predicate(w, name, arg, perm_amount, p) ==
    IF w.kind = "PurityFinder" THEN [w EXCEPT !.non_pure = TRUE] ELSE walk(w, arg)

walk_field_access_predicate(w, receiver, perm_amount, p) ==
    IF w.kind = "PurityFinder" THEN [w EXCEPT !.non_pure = TRUE] ELSE walk(w, receiver)

walk_unary_op(w, kind, arg, p) == walk(w, arg)

\* walk_bin_op that walks the second operand first.
walk_bin_op_right_first(w, kind, arg1, arg2, p) == walk(walk(w, arg2), arg1)

walk_bin_op(w, kind, arg1, arg2, p) == walk(walk(w, arg1), arg2)

walk_unfolding(w, name, args, body, perm, variant, p) == walk(walk_vec(w, args), body)

walk_cond(w, guard, then_expr, else_expr, p) ==
    walk(walk(walk(w, guard), then_expr), else_expr)

walk_forall(w, vs, triggers, body, p) == walk(walk_local_vars(w, vs), body)

walk_let_expr(w, bound_var, def, body, p) ==
    walk(walk(walk_local_var(w, bound_var), def), body)

walk_func_app(w, name, args, formal_args, return_type, p) ==
    walk_local_vars(walk_vec(w, args), formal_args)

default_walk_expr(w, a) ==
    CASE a.k = "Local" -> walk_local(w, a.v, a.pos)
      [] a.k = "Variant" -> walk_variant(w, a.base, a.field, a.pos)
      [] a.k = "Field" -> walk_field(w, a.base, a.field, a.pos)
      [] a.k = "AddrOf" -> walk_addr_of(w, a.base, a.typ, a.pos)
      [] a.k = "Const" -> walk_const(w, a.value, a.pos)
      [] a.k = "LabelledOld" -> walk_labelled_old(w, a.label, a.base, a.pos)
      [] a.k = "MagicWand" -> walk_magic_wand(w, a.lhs, a.rhs, a.borrow, a.pos)
      [] a.k = "PredicateAccessPredicate" ->
            walk_predicate_access_predicate(w, a.name, a.arg, a.perm, a.pos)
      [] a.k = "FieldAccessPredicate" -> walk_field_access_predicate(w, a.base, a.perm, a.pos)
      [] a.k = "UnaryOp" -> walk_unary_op(w, a.op, a.arg, a.pos)
      [] a.k = "BinOp" -> walk_bin_op(w, a.op, a.left, a.right, a.pos)
      [] a.k = "Unfolding" ->
            walk_unfolding(w, a.name, a.args, a.base, a.perm, a.variant, a.pos)
      [] a.k = "Cond" -> walk_cond(w, a.guard, a.then_expr, a.else_expr, a.pos)
      [] a.k = "ForAll" -> walk_forall(w, a.vars, a.triggers, a.body, a.pos)
      [] a.k = "LetExpr" -> walk_let_expr(w, a.v, a.def, a.body, a.pos)
      [] a.k = "FuncApp" ->
            walk_func_app(w, a.name, a.args, a.formal_args, a.return_type, a.pos)

\* fn walk(&mut self, e) { default_walk_expr(self, e) }; the Tracer is a
\* walker that overrides nothing but notes every expression walk is called on.
walk(w, a) ==
    IF w.kind = "Tracer"
    THEN default_walk_expr([w EXCEPT !.visited = Append(@, a)], a)
    ELSE default_walk_expr(w, a)

is_pure(a) == ~ walk([kind |-> "PurityFinder", non_pure |-> FALSE], a).non_pure

compute_footprint(a, perm_amount) ==
    walk([kind |-> "Collector", perm_amount |-> perm_amount, perms |-> <<>>], a).perms

RECURSIVE is_only_permissions(_)
is_only_permissions(a) ==
    CASE a.k \in {"PredicateAccessPredicate", "FieldAccessPredicate"} -> TRUE
      [] a.k = "BinOp" /\ a.op = "And" ->
            is_only_permissions(a.left) /\ is_only_permissions(a.right)
      [] OTHER -> FALSE

-----------------------------------------------------------------------------
(* The constructors of impl Expr                                           *)

local(v) == Expr_Local(v, DefaultPos)

\* variant without its assertion: only get_type may stop it.
variant_unasserted(a, index) ==
    IF get_type(a) = Panic THEN Panic
    ELSE Expr_Variant(a, Field_new(<<"enum_", index>>, Type_variant(get_type(a), index)),
                      DefaultPos)

variant(a, index) ==
    IF ~ is_place(a) THEN Panic
    ELSE Expr_Variant(a, Field_new(<<"enum_", index>>, Type_variant(get_type(a), index)),
                      DefaultPos)

field(a, f) == Expr_Field(a, f, DefaultPos)

addr_of(a) ==
    IF get_type(a) = Panic THEN Panic
    ELSE Expr_AddrOf(a, TypedRef(Type_name(get_type(a))), DefaultPos)

labelled_old(label, a) == Expr_LabelledOld(label, a, DefaultPos)

predicate_access_predicate(name, place, perm) ==
    Expr_PredicateAccessPredicate(name, place, perm, pos(place))

not(a) == Expr_UnaryOp("Not", a, DefaultPos)

minus(a) == Expr_UnaryOp("Minus", a, DefaultPos)

eq_cmp(left, right) == Expr_BinOp("EqCmp", left, right, DefaultPos)

ge_cmp(left, right) == Expr_BinOp("GeCmp", left, right, DefaultPos)

sub(left, right) == Expr_BinOp("Sub", left, right, DefaultPos)

modulo(left, right) == Expr_BinOp("Mod", left, right, DefaultPos)

and(left, right) == Expr_BinOp("And", left, right, DefaultPos)

or(left, right) == Expr_BinOp("Or", left, right, DefaultPos)

forall(vs, triggers, body) == Expr_ForAll(vs, triggers, body, DefaultPos)

ite(guard, left, right) == Expr_Cond(guard, left, right, DefaultPos)

\* rem that takes right itself, not its absolute value, off the modulo.
rem_taking_right(left, right) ==
    ite(or(ge_cmp(left, Expr_from_int(0)),
           eq_cmp(modulo(left, right), Expr_from_int(0))),
        modulo(left, right),
        sub(modulo(left, right), right))

rem(left, right) ==
    LET abs_right == ite(ge_cmp(right, Expr_from_int(0)), right, minus(right))
    IN  ite(or(ge_cmp(left, Expr_from_int(0)),
               eq_cmp(modulo(left, right), Expr_from_int(0))),
            modulo(left, right),
            sub(modulo(left, right), abs_right))

unfolding(pred_name, args, a, perm, var) ==
    Expr_Unfolding(pred_name, args, a, perm, var, DefaultPos)

\* ExprIterator::conjoin: the elements the iterator yields, joined from the
\* right.
RECURSIVE conjoin(_)
conjoin(s) ==
    IF s # <<>> THEN and(Head(s), conjoin(Tail(s))) ELSE Expr_from_bool(TRUE)

\* disjoin that ends, as conjoin does, in true.
RECURSIVE disjoin_ending_in_true(_)
disjoin_ending_in_true(s) ==
    IF s # <<>> THEN or(Head(s), disjoin_ending_in_true(Tail(s))) ELSE Expr_from_bool(TRUE)

\* ExprIterator::disjoin
RECURSIVE disjoin(_)
disjoin(s) ==
    IF s # <<>> THEN or(Head(s), disjoin(Tail(s))) ELSE Expr_from_bool(FALSE)

wrap_in_unfolding(arg, body) ==
    IF get_type(arg) = Panic THEN Panic
    ELSE Expr_Unfolding(Type_name(get_type(arg)), <<arg>>, body, PermAmount_Read,
                        NoVariant, pos(body))

implies(left, right) == Expr_BinOp("Implies", left, right, DefaultPos)

func_app(name, args, internal_args, return_type, p) ==
    Expr_FuncApp(name, args, internal_args, return_type, p)

magic_wand(lhs, rhs, borrow) == Expr_MagicWand(lhs, rhs, borrow, DefaultPos)

let_expr(v, def, body) == Expr_LetExpr(v, def, body, DefaultPos)

-----------------------------------------------------------------------------
(* The values the calls below draw their arguments from                    *)

name_T == <<"T">>
name_U == <<"U">>

var_x == LocalVar("x", TypedRef(name_T))
var_y == LocalVar("y", TypedRef(name_T))
var_z == LocalVar("z", TypedRef(name_U))
var_i == LocalVar("i", Type_Int)

field_f == Field_new(<<"f">>, TypedRef(name_T))
field_g == Field_new(<<"g">>, Type_Int)

place_x_f == field(local(var_x), field_f)

Labels == {"l1", "l2"}

\* The expressions a seed may be.
Seeds == {local(var_x), place_x_f, Expr_from_bool(TRUE)}

\* The second operand of a binary node, the guard of a conditional.
Operands == {acc_permission(place_x_f, PermAmount_Write)}

\* The triggers of a quantifier.
TriggerSets == {<< <<place_x_f>> >>, << <<acc_permission(place_x_f, PermAmount_Write)>> >>}

\* The arguments of an unfolding.
ArgVecs == {<<local(var_x)>>, <<acc_permission(place_x_f, PermAmount_Write)>>}

ConstructorNames ==
    {"seed", "field", "variant", "addr_of", "labelled_old", "predicate_access_predicate",
     "acc_permission", "not", "eq_cmp", "and", "forall", "ite", "unfolding", "func_app",
     "magic_wand", "let_expr", "set_pos", "Field", "Variant", "AddrOf"}

-----------------------------------------------------------------------------
(* The state machine: a caller builds an expression bottom-up with the     *)
(* constructors, then calls one transformation or query on it.             *)

Init ==
    /\ expr \in Seeds
    /\ op = [name |-> "seed", depth |-> 0]
    /\ out = None

Building == op.name \in ConstructorNames /\ op.depth < MaxDepth

Built(name, a) ==
    /\ expr' = a
    /\ op' = [name |-> name, depth |-> op.depth + 1]
    /\ out' = None

Do_field ==
    /\ Building
    /\ is_place(expr)
    /\ Type_is_ref(get_type(expr))
    /\ \E fd \in {field_f, field_g} : Built("field", field(expr, fd))

Do_variant ==
    /\ Building
    /\ is_place(expr)
    /\ Type_is_ref(get_type(expr))
    /\ Built("variant", variant(expr, "A"))

Do_addr_of ==
    /\ Building
    /\ is_place(expr)
    /\ Built("addr_of", addr_of(expr))

Do_labelled_old ==
    /\ Building
    /\ \E l \in Labels : Built("labelled_old", labelled_old(l, expr))

Do_predicate_access_predicate ==
    /\ Building
    /\ is_place(expr)
    /\ Type_is_ref(get_type(expr))
    /\ Built("predicate_access_predicate",
             predicate_access_predicate(Type_name(get_type(expr)), expr, PermAmount_Write))

Do_acc_permission ==
    /\ Building
    /\ is_place(expr)
    /\ expr.k \in {"Field", "Variant"}
    /\ Built("acc_permission", acc_permission(expr, PermAmount_Write))

Do_not ==
    /\ Building
    /\ Built("not", not(expr))

Do_eq_cmp ==
    /\ Building
    /\ Built("eq_cmp", eq_cmp(expr, Expr_from_int(1)))

Do_and ==
    /\ Building
    /\ \E o \in Operands :
          \/ Built("and", and(expr, o))
          \/ Built("and", and(o, expr))

Do_forall ==
    /\ Building
    /\ \E v \in {var_x, var_i}, ts \in TriggerSets : Built("forall", forall(<<v>>, ts, expr))

Do_ite ==
    /\ Building
    /\ Built("ite", ite(Expr_from_bool(TRUE), expr, local(var_x)))

Do_unfolding ==
    /\ Building
    /\ \E as \in ArgVecs :
          Built("unfolding", unfolding(name_T, as, expr, PermAmount_Write, NoVariant))

Do_func_app ==
    /\ Building
    /\ Built("func_app", func_app(<<"fn">>, <<expr>>, <<var_i>>, Type_Int, DefaultPos))

Do_magic_wand ==
    /\ Building
    /\ \E o \in Operands : Built("magic_wand", magic_wand(expr, o, NoBorrow))

Do_let_expr ==
    /\ Building
    /\ \E v \in {var_x, var_i} : Built("let_expr", let_expr(v, Expr_from_int(1), expr))

Do_set_pos ==
    /\ Building
    /\ pos(expr) = DefaultPos
    /\ Built("set_pos", set_pos(expr, "p1"))

Build ==
    \/ Do_field
    \/ Do_variant
    \/ Do_addr_of
    \/ Do_labelled_old
    \/ Do_predicate_access_predicate
    \/ Do_acc_permission
    \/ Do_not
    \/ Do_eq_cmp
    \/ Do_and
    \/ Do_forall
    \/ Do_ite
    \/ Do_unfolding
    \/ Do_func_app
    \/ Do_magic_wand
    \/ Do_let_expr
    \/ Do_set_pos

Called(call, result) ==
    /\ op.name \in ConstructorNames
    /\ op' = call
    /\ out' = result
    /\ UNCHANGED expr

\* e.set_default_pos(p)
Call_set_default_pos ==
    \E p \in Positions \ {DefaultPos} :
        Called([name |-> "set_default_pos", p |-> p], set_default_pos(expr, p))

NextPos == Build \/ Call_set_default_pos

SpecPos == Init /\ [][NextPos]_vars

-----------------------------------------------------------------------------
(* Sub-expressions                                                         *)

\* The expressions a node holds, left to right, a quantifier's triggers included.
Children(a) ==
    CASE a.k \in {"Local", "Const"} -> <<>>
      [] a.k \in {"Variant", "Field", "AddrOf", "LabelledOld", "FieldAccessPredicate"} ->
            <<a.base>>
      [] a.k = "MagicWand" -> <<a.lhs, a.rhs>>
      [] a.k = "PredicateAccessPredicate" -> <<a.arg>>
      [] a.k = "UnaryOp" -> <<a.arg>>
      [] a.k = "BinOp" -> <<a.left, a.right>>
      [] a.k = "Unfolding" -> a.args \o <<a.base>>
      [] a.k = "Cond" -> <<a.guard, a.then_expr, a.else_expr>>
      [] a.k = "ForAll" ->
            LET RECURSIVE flat(_)
                flat(ts) == IF ts = <<>> THEN <<>> ELSE Head(ts) \o flat(Tail(ts))
            IN  flat(a.triggers) \o <<a.body>>
      [] a.k = "LetExpr" -> <<a.def, a.body>>
      [] a.k = "FuncApp" -> a.args

\* Every node of an expression, the expression itself included.
RECURSIVE SubExprs(_)
SubExprs(a) ==
    {a} \cup UNION {SubExprs(Children(a)[n]) : n \in 1..Len(Children(a))}

-----------------------------------------------------------------------------
(* Position independence of equality and hashing                           *)

\* C1: an expression whose nodes were given other Positions (the root by
\* set_pos, the nodes at any depth by set_default_pos) compares equal to
\* the expression it was made from and feeds the same data to the Hasher.
C1_PositionIndependence ==
    /\ (op.name = "set_default_pos" =>
            /\ ExprEq(expr, out)
            /\ Hash(expr) = Hash(out))
    /\ \A p \in Positions :
            /\ ExprEq(expr, set_pos(expr, p))
            /\ Hash(expr) = Hash(set_pos(expr, p))

\* Positions were changed below the root, and the two trees differ as values.
C1_Witness ==
    /\ op.name = "set_default_pos"
    /\ out # expr
    /\ \E n \in 1..Len(Children(expr)) : Children(out)[n] # Children(expr)[n]

-----------------------------------------------------------------------------
(* replace_place                                                           *)

Targets == {local(var_x), place_x_f}

Replacements ==
    {local(var_y), local(var_x), local(var_z), local(var_i), Expr_from_int(1),
     not(local(var_y))}

\* e.replace_place(target, replacement)
Call_replace_place ==
    \E t \in Targets, r \in Replacements :
        Called([name |-> "replace_place", target |-> t, replacement |-> r],
               replace_place(expr, t, r))

NextReplace == Build \/ Call_replace_place

SpecReplace == Init /\ [][NextReplace]_vars

\* a has a sub-expression equal to t (ignoring Position).
Contains(a, t) == \E s \in SubExprs(a) : ExprEq(s, t)

\* The quantifier q binds the variable v.
Binds(q, v) == \E n \in 1..Len(q.vars) : q.vars[n] = v

NoForAllBinding(a, v) == \A s \in SubExprs(a) : s.k = "ForAll" => ~ Binds(s, v)

Replaced == op.name = "replace_place" /\ out # Panic

\* C2 as stated: if no ForAll of e binds target's root variable and
\* replacement does not contain target, the result of replace_place holds no
\* sub-expression equal to target.
C2_NoTargetLeft ==
    (/\ Replaced
     /\ NoForAllBinding(expr, get_base(op.target))
     /\ ~ Contains(op.replacement, op.target))
    => ~ Contains(out, op.target)

\* C2 as amended: the same, provided also that target does not contain
\* replacement; an expression equal to target is answered by replacement
\* itself, and an expression without any occurrence of target is rebuilt
\* unchanged.
C2_NoTargetLeftUnlessRebuilt ==
    Replaced =>
        /\ (/\ NoForAllBinding(expr, get_base(op.target))
            /\ ~ Contains(op.replacement, op.target)
            /\ ~ Contains(op.target, op.replacement))
           => ~ Contains(out, op.target)
        /\ ExprEq(expr, op.target) => out = op.replacement
        /\ ~ Contains(expr, op.target) => out = expr

\* An occurrence below a function application was replaced.
C2_Witness ==
    /\ Replaced
    /\ expr.k = "FuncApp"
    /\ Contains(expr, op.target)
    /\ ~ Contains(op.replacement, op.target)
    /\ ~ Contains(op.target, op.replacement)
    /\ Contains(out, op.replacement)
    /\ ~ Contains(out, op.target)

\* C18: replace_place aborts if replacement is a place of a type other than
\* target's, and only then: a replacement that is not a place is never
\* checked.
C18_TypeMismatchAborts ==
    op.name = "replace_place" =>
        /\ (is_place(op.replacement) /\ get_type(op.target) # get_type(op.replacement))
              => out = Panic
        /\ ~ is_place(op.replacement) => out # Panic
        /\ (is_place(op.replacement) /\ get_type(op.target) = get_type(op.replacement))
              => out # Panic

\* A place of another type was refused; the expression held the target.
C18_Witness ==
    /\ op.name = "replace_place"
    /\ is_place(op.replacement)
    /\ get_type(op.target) # get_type(op.replacement)
    /\ Contains(expr, op.target)
    /\ out = Panic

\* An expression that is not a place was put in for the target, unchecked.
C18_WitnessNonPlace ==
    /\ op.name = "replace_place"
    /\ ~ is_place(op.replacement)
    /\ Contains(expr, op.target)
    /\ out # Panic
    /\ Contains(out, op.replacement)

\* C3: in LetExpr(v, def, body) with v the root variable of target, the
\* body of the result of replace_place is the body of the input.
C3_LetBodyUntouched ==
    (/\ Replaced
     /\ expr.k = "LetExpr"
     /\ expr.v = get_base(op.target))
    => /\ out.k = "LetExpr"
       /\ out.body = expr.body

\* C4: replace_place returns a ForAll that binds target's root variable
\* unchanged, wherever it stands in the expression; of a ForAll that does
\* not bind it, the bound variables are kept and every trigger expression and
\* the body are the replace_place of those of the input.
C4_ForAllShadowing ==
    Replaced =>
        /\ \A s \in SubExprs(expr) :
              (s.k = "ForAll" /\ Binds(s, get_base(op.target))) => s \in SubExprs(out)
        /\ (expr.k = "ForAll" /\ Binds(expr, get_base(op.target))) => out = expr
        /\ (expr.k = "ForAll" /\ ~ Binds(expr, get_base(op.target))) =>
              /\ out.k = "ForAll"
              /\ out.vars = expr.vars
              /\ out.pos = expr.pos
              /\ out.body = replace_place(expr.body, op.target, op.replacement)
              /\ Len(out.triggers) = Len(expr.triggers)
              /\ \A n \in 1..Len(expr.triggers) :
                    /\ Len(out.triggers[n]) = Len(expr.triggers[n])
                    /\ \A m \in 1..Len(expr.triggers[n]) :
                          out.triggers[n][m] =
                              replace_place(expr.triggers[n][m], op.target, op.replacement)

\* A ForAll binding the root variable, holding target in a trigger and in its
\* body, came back unchanged.
C4_Witness ==
    /\ Replaced
    /\ expr.k = "ForAll"
    /\ Binds(expr, get_base(op.target))
    /\ Contains(expr.body, op.target)
    /\ \E n \in 1..Len(expr.triggers) : Contains(expr.triggers[n][1], op.target)
    /\ out = expr

-----------------------------------------------------------------------------
(* remove_redundant_old, map_labels                                        *)

\* The label functions handed to map_labels; "None" is Option::None.
LabelMaps ==
    {[l \in Labels |-> IF l = "l1" THEN "m1" ELSE "m2"],
     [l \in Labels |-> IF l = "l1" THEN "None" ELSE "m2"]}

\* e.remove_redundant_old()
Call_remove_redundant_old ==
    Called([name |-> "remove_redundant_old"], remove_redundant_old(expr))

\* e.map_labels(f)
Call_map_labels ==
    \E lf \in LabelMaps : Called([name |-> "map_labels", f |-> lf], map_labels(expr, lf))

NextOld == Build \/ Call_remove_redundant_old \/ Call_map_labels

SpecOld == Init /\ [][NextOld]_vars

\* C5: remove_redundant_old of LabelledOld(L, LabelledOld(L, e)) is the
\* remove_redundant_old of LabelledOld(L, e): the same expression when both
\* stand at the same Position, an equal one otherwise.  The inner
\* LabelledOld is unwrapped.
C5_NestedSameLabelUnwrapped ==
    (/\ op.name = "remove_redundant_old"
     /\ expr.k = "LabelledOld"
     /\ expr.base.k = "LabelledOld"
     /\ expr.base.label = expr.label)
    => /\ ExprEq(out, remove_redundant_old(expr.base))
       /\ out = remove_redundant_old(set_pos(expr.base, expr.pos))
       /\ out.k = "LabelledOld" => out.base.k # "LabelledOld"

C5_Witness ==
    /\ op.name = "remove_redundant_old"
    /\ expr.k = "LabelledOld"
    /\ expr.base.k = "LabelledOld"
    /\ expr.base.label = expr.label
    /\ out.k = "LabelledOld"
    /\ out.label = expr.label
    /\ out.base.k # "LabelledOld"

\* The labels of the LabelledOld nodes of an expression, in pre-order.
RECURSIVE LabelSeq(_)
LabelSeq(a) ==
    LET RECURSIVE of_all(_)
        of_all(cs) == IF cs = <<>> THEN <<>> ELSE LabelSeq(Head(cs)) \o of_all(Tail(cs))
    IN  (IF a.k = "LabelledOld" THEN <<a.label>> ELSE <<>>) \o of_all(Children(a))

\* The labels lf gives to ls, the ones it gives none left out.
RECURSIVE MappedLabels(_, _)
MappedLabels(lf, ls) ==
    IF ls = <<>> THEN <<>>
    ELSE (IF lf[Head(ls)] = "None" THEN <<>> ELSE <<lf[Head(ls)]>>)
         \o MappedLabels(lf, Tail(ls))

\* C6: map_labels(f) gives every LabelledOld node the label f gives to its
\* own, wherever the node stands, and removes the nodes f gives no label.
C6_EveryLabelMapped ==
    op.name = "map_labels" => LabelSeq(out) = MappedLabels(op.f, LabelSeq(expr))

-----------------------------------------------------------------------------
(* filter_perm_conjunction, is_pure, compute_footprint                     *)

PermKinds == {"PredicateAccessPredicate", "FieldAccessPredicate"}

\* e.filter_perm_conjunction()
Call_filter_perm_conjunction ==
    Called([name |-> "filter_perm_conjunction"], filter_perm_conjunction(expr))

\* e.is_pure()
Call_is_pure == Called([name |-> "is_pure"], is_pure(expr))

\* e.compute_footprint(perm)
Call_compute_footprint ==
    \E perm \in {PermAmount_Read, PermAmount_Write} :
        Called([name |-> "compute_footprint", perm |-> perm], compute_footprint(expr, perm))

NextPerm == Build \/ Call_filter_perm_conjunction \/ Call_is_pure \/ Call_compute_footprint

SpecPerm == Init /\ [][NextPerm]_vars

\* Every inner node of a is a BinOp And and every leaf satisfies one of kinds
\* or, when with_true, is the Boolean constant true.
RECURSIVE ConjunctionOf(_, _)
ConjunctionOf(a, with_true) ==
    CASE a.k \in PermKinds -> TRUE
      [] a.k = "BinOp" ->
            a.op = "And" /\ ConjunctionOf(a.left, with_true) /\ ConjunctionOf(a.right, with_true)
      [] a.k = "Const" -> with_true /\ a.value = Const_Bool(TRUE)
      [] OTHER -> FALSE

\* C7 as stated: the output of filter_perm_conjunction has only
\* FieldAccessPredicate and PredicateAccessPredicate leaves, joined by
\* BinOp And nodes.
C7_OnlyPermissionLeaves ==
    op.name = "filter_perm_conjunction" => ConjunctionOf(out, FALSE)

\* C7 as amended: every leaf of the output is a FieldAccessPredicate, a
\* PredicateAccessPredicate or the Boolean constant true, and every inner
\* node is a BinOp And.
C7_PermissionOrTrueLeaves ==
    op.name = "filter_perm_conjunction" => ConjunctionOf(out, TRUE)

\* A conjunction of a permission and something else was filtered.
C7_Witness ==
    /\ op.name = "filter_perm_conjunction"
    /\ out.k = "BinOp"
    /\ \E s \in SubExprs(out) : s.k \in PermKinds
    /\ \E s \in SubExprs(out) : s.k = "Const"
    /\ out # expr

\* C8: filter_perm_conjunction applied to its own output returns it.
C8_FilterIdempotent ==
    op.name = "filter_perm_conjunction" => filter_perm_conjunction(out) = out

C8_Witness ==
    /\ op.name = "filter_perm_conjunction"
    /\ out.k = "BinOp"
    /\ out # expr
    /\ filter_perm_conjunction(out) = out

\* C9: is_pure(e) is true exactly if no FieldAccessPredicate and no
\* PredicateAccessPredicate occurs in e, in whatever child position.
C9_PureIffNoPermission ==
    op.name = "is_pure" => (out <=> \A s \in SubExprs(expr) : s.k \notin PermKinds)

\* The expressions the default walk of a node goes into, left to right.
WalkedChildren(a) ==
    IF a.k = "ForAll" THEN <<a.body>> ELSE Children(a)

\* The Field and Variant nodes reached without entering a LabelledOld, each
\* after the ones below it, left to right.
RECURSIVE AccessSteps(_)
AccessSteps(a) ==
    LET RECURSIVE of_all(_)
        of_all(cs) == IF cs = <<>> THEN <<>> ELSE AccessSteps(Head(cs)) \o of_all(Tail(cs))
    IN  IF a.k = "LabelledOld" THEN <<>>
        ELSE of_all(WalkedChildren(a)) \o (IF a.k \in {"Field", "Variant"} THEN <<a>> ELSE <<>>)

\* C10: compute_footprint(perm) returns one FieldAccessPredicate of amount
\* perm for every Field or Variant step of the places the walk visits, left
\* to right, the permission of a step right after the permission of the
\* step it extends; nothing inside a LabelledOld is listed.
C10_FootprintShallowFirst ==
    op.name = "compute_footprint" =>
        /\ out = [n \in 1..Len(AccessSteps(expr)) |->
                     Expr_FieldAccessPredicate(AccessSteps(expr)[n], op.perm, DefaultPos)]
        /\ expr.k = "LabelledOld" => out = <<>>
        /\ \A n \in 1..Len(out) :
              (/\ out[n].base.k \in {"Field", "Variant"}
               /\ out[n].base.base.k \in {"Field", "Variant"})
              => /\ n > 1
                 /\ out[n - 1].base = out[n].base.base

\* Two steps of one place were listed, the shallower first.
C10_Witness ==
    /\ op.name = "compute_footprint"
    /\ Len(out) >= 2
    /\ out[2].base.k = "Field"
    /\ out[2].base.base = out[1].base

\* C11: no two entries of the list compute_footprint(perm) returns are equal.
C11_FootprintNoDuplicates ==
    op.name = "compute_footprint" =>
        \A m, n \in 1..Len(out) : m # n => ~ ExprEq(out[m], out[n])

-----------------------------------------------------------------------------
(* remove_read_permissions                                                 *)

\* The node a around the children cs, given in the order of Children(a).
Rebuild(a, cs) ==
    CASE a.k \in {"Local", "Const"} -> a
      [] a.k \in {"Variant", "Field", "AddrOf", "LabelledOld", "FieldAccessPredicate"} ->
            [a EXCEPT !.base = cs[1]]
      [] a.k = "MagicWand" -> [a EXCEPT !.lhs = cs[1], !.rhs = cs[2]]
      [] a.k \in {"PredicateAccessPredicate", "UnaryOp"} -> [a EXCEPT !.arg = cs[1]]
      [] a.k = "BinOp" -> [a EXCEPT !.left = cs[1], !.right = cs[2]]
      [] a.k = "Unfolding" ->
            [a EXCEPT !.args = SubSeq(cs, 1, Len(a.args)), !.base = cs[Len(cs)]]
      [] a.k = "Cond" ->
            [a EXCEPT !.guard = cs[1], !.then_expr = cs[2], !.else_expr = cs[3]]
      [] a.k = "ForAll" ->
            LET RECURSIVE before(_)
                before(n) == IF n = 1 THEN 0 ELSE before(n - 1) + Len(a.triggers[n - 1])
            IN  [a EXCEPT !.triggers = [n \in 1..Len(a.triggers) |->
                                           [m \in 1..Len(a.triggers[n]) |-> cs[before(n) + m]]],
                          !.body = cs[Len(cs)]]
      [] a.k = "LetExpr" -> [a EXCEPT !.def = cs[1], !.body = cs[2]]
      [] a.k = "FuncApp" -> [a EXCEPT !.args = cs]

\* The child n of a is an expression of one of the triggers of a quantifier.
InTrigger(a, n) == a.k = "ForAll" /\ n < Len(Children(a))

\* a with every Read permission replaced by true, the ones in the triggers of
\* a quantifier as well when triggers_too.
RECURSIVE StripRead(_, _)
StripRead(a, triggers_too) ==
    IF a.k \in PermKinds
    THEN IF a.perm = PermAmount_Read THEN Expr_from_bool(TRUE) ELSE a
    ELSE Rebuild(a, [n \in 1..Len(Children(a)) |->
                        IF InTrigger(a, n) /\ ~ triggers_too
                        THEN Children(a)[n]
                        ELSE StripRead(Children(a)[n], triggers_too)])

\* The permission nodes of a that are in no trigger and in no other permission.
RECURSIVE ReachedPerms(_)
ReachedPerms(a) ==
    IF a.k \in PermKinds THEN {a}
    ELSE UNION {ReachedPerms(WalkedChildren(a)[n]) : n \in 1..Len(WalkedChildren(a))}

\* The expressions with a permission of every amount.
PermSeeds ==
    {acc_permission(place_x_f, PermAmount_Read),
     predicate_access_predicate(name_T, local(var_x), PermAmount_Read),
     acc_permission(place_x_f, PermAmount_Remaining),
     predicate_access_predicate(name_T, local(var_x), PermAmount_None),
     forall(<<var_i>>, << <<acc_permission(place_x_f, PermAmount_Read)>> >>,
            acc_permission(place_x_f, PermAmount_Read))}

InitReadPerm ==
    /\ expr \in Seeds \cup PermSeeds
    /\ op = [name |-> "seed", depth |-> 0]
    /\ out = None

\* e.remove_read_permissions()
Call_remove_read_permissions ==
    Called([name |-> "remove_read_permissions"], remove_read_permissions(expr))

NextReadPerm == Build \/ Call_remove_read_permissions

SpecReadPerm == InitReadPerm /\ [][NextReadPerm]_vars

C12_WitnessAbort ==
    /\ op.name = "remove_read_permissions"
    /\ expr.k = "BinOp"
    /\ expr.right.k \in PermKinds /\ expr.right.perm = PermAmount_Remaining
    /\ out = Panic

-----------------------------------------------------------------------------
(* rem                                                                     *)

\* The operands of rem are the integers of -MaxInt..MaxInt.
MaxInt == 7

InitRem ==
    \E l, r \in (0 - MaxInt)..MaxInt :
        /\ expr = Expr_from_int(l)
        /\ op = [name |-> "operands", right |-> Expr_from_int(r)]
        /\ out = None

\* Expr::rem(left, right)
Call_rem ==
    /\ op.name = "operands"
    /\ op' = [name |-> "rem", right |-> op.right]
    /\ out' = rem(expr, op.right)
    /\ UNCHANGED expr

NextRem == Call_rem

SpecRem == InitRem /\ [][NextRem]_vars

Abs(n) == IF n < 0 THEN 0 - n ELSE n

\* The modulo of the back end: the remainder of the Euclidean division, never
\* negative.
EuclideanMod(n, d) == n % Abs(d)

\* The remainder of the division that truncates towards zero: its sign is the
\* sign of the dividend.
TruncatedRem(n, d) == IF n < 0 THEN 0 - (Abs(n) % Abs(d)) ELSE n % Abs(d)

\* The value of an integer expression and of a Boolean expression made of
\* constants, conditionals, comparisons and arithmetic.
RECURSIVE EvalInt(_)
RECURSIVE EvalBool(_)
EvalInt(a) ==
    CASE a.k = "Const" -> a.value.i
      [] a.k = "UnaryOp" /\ a.op = "Minus" -> 0 - EvalInt(a.arg)
      [] a.k = "BinOp" /\ a.op = "Sub" -> EvalInt(a.left) - EvalInt(a.right)
      [] a.k = "BinOp" /\ a.op = "Mod" -> EuclideanMod(EvalInt(a.left), EvalInt(a.right))
      [] a.k = "Cond" ->
            IF EvalBool(a.guard) THEN EvalInt(a.then_expr) ELSE EvalInt(a.else_expr)

EvalBool(a) ==
    CASE a.k = "Const" -> a.value.b
      [] a.k = "BinOp" /\ a.op = "GeCmp" -> EvalInt(a.left) >= EvalInt(a.right)
      [] a.k = "BinOp" /\ a.op = "EqCmp" -> EvalInt(a.left) = EvalInt(a.right)
      [] a.k = "BinOp" /\ a.op = "Or" -> EvalBool(a.left) \/ EvalBool(a.right)

\* C13: for a divisor other than 0, the expression rem(l, r) evaluates, with
\* Mod the Euclidean modulo, to the truncated remainder of l by r.
C13_RemIsTruncatedRemainder ==
    (op.name = "rem" /\ op.right.value.i # 0) =>
        EvalInt(out) = TruncatedRem(expr.value.i, op.right.value.i)

\* A negative dividend that the divisor, negative too, does not divide.
C13_Witness ==
    /\ op.name = "rem"
    /\ expr.value.i < 0
    /\ op.right.value.i < 0
    /\ EvalInt(out) < 0
    /\ EvalInt(out) = TruncatedRem(expr.value.i, op.right.value.i)

-----------------------------------------------------------------------------
(* The place algebra: explode_place, reconstruct_place, the prefixes and   *)
(* the place-only accessors                                                *)

\* debug_assert!(cond) ahead of a body: the assertion is compiled in with
\* debug_assertions only.
debug_assert(debug_assertions, cond, body) ==
    IF debug_assertions /\ ~ cond THEN Panic ELSE body

\* Expr::Field, Expr::Variant and Expr::AddrOf around an expression that is
\* not a place.
Do_wrap_non_place ==
    /\ Building
    /\ ~ is_place(expr)
    /\ \/ Built("Field", Expr_Field(expr, field_f, DefaultPos))
       \/ Built("Variant", Expr_Variant(expr, field_f, DefaultPos))
       \/ Built("AddrOf", Expr_AddrOf(expr, TypedRef(name_T), DefaultPos))

\* e.explode_place()
Call_explode_place == Called([name |-> "explode_place"], explode_place(expr))

\* base.reconstruct_place(components), on what explode_place returned
Call_reconstruct_place ==
    /\ op.name = "explode_place"
    /\ op' = [name |-> "reconstruct_place", exploded |-> out]
    /\ out' = reconstruct_place(out[1], out[2])
    /\ UNCHANGED expr

\* The place-only accessors, in a build with and without debug_assertions.
Call_get_parent ==
    \E d \in BOOLEAN :
        Called([name |-> "get_parent", debug_assertions |-> d],
               debug_assert(d, is_place(expr), get_parent(expr)))

Call_get_base ==
    \E d \in BOOLEAN :
        Called([name |-> "get_base", debug_assertions |-> d],
               debug_assert(d, is_place(expr), get_base(expr)))

Call_get_type ==
    \E d \in BOOLEAN :
        Called([name |-> "get_type", debug_assertions |-> d],
               debug_assert(d, is_place(expr), get_type(expr)))

Call_place_depth ==
    \E d \in BOOLEAN :
        Called([name |-> "place_depth", debug_assertions |-> d], place_depth(expr))

Call_all_prefixes ==
    \E d \in BOOLEAN :
        Called([name |-> "all_prefixes", debug_assertions |-> d],
               debug_assert(d, is_place(expr), all_prefixes(expr)))

NextPlace ==
    \/ Build
    \/ Do_wrap_non_place
    \/ Call_explode_place
    \/ Call_reconstruct_place
    \/ Call_get_parent
    \/ Call_get_base
    \/ Call_get_type
    \/ Call_place_depth
    \/ Call_all_prefixes

SpecPlace == Init /\ [][NextPlace]_vars

\* C14: for a place e, reconstruct_place of the base and the components that
\* explode_place(e) returned is equal to e, Positions apart.
C14_ExplodeReconstruct ==
    (op.name = "reconstruct_place" /\ is_place(expr)) => ExprEq(out, expr)

\* A place of two components and more was taken apart and put together.
C14_Witness ==
    /\ op.name = "reconstruct_place"
    /\ is_place(expr)
    /\ Len(op.exploded[2]) >= 2
    /\ op.exploded[2][1] # op.exploded[2][2]
    /\ ExprEq(out, expr)

\* C15: for a place e, all_prefixes(e) is strictly increasing by place_depth,
\* ends with e, and every earlier element is a proper prefix of every later
\* one.
C15_PrefixesIncreasing ==
    (op.name = "all_prefixes" /\ is_place(expr)) =>
        /\ out # Panic
        /\ Len(out.vec) >= 1
        /\ out.vec[Len(out.vec)] = expr
        /\ \A m, n \in 1..Len(out.vec) :
              m < n => /\ place_depth(out.vec[m]).u32 < place_depth(out.vec[n]).u32
                       /\ has_proper_prefix(out.vec[n], out.vec[m])

\* The prefixes of a place of three steps and more were listed.
C15_Witness ==
    /\ op.name = "all_prefixes"
    /\ is_place(expr)
    /\ out # Panic
    /\ Len(out.vec) >= 3
    /\ has_proper_prefix(out.vec[3], out.vec[1])

\* A place built of Local, Field, Variant and AddrOf nodes alone.
RECURSIVE IsPlainPlace(_)
IsPlainPlace(a) ==
    CASE a.k = "Local" -> TRUE
      [] a.k \in {"Variant", "Field", "AddrOf"} -> IsPlainPlace(a.base)
      [] OTHER -> FALSE

\* The list s starts at the Local of the variable get_base(a) and has
\* place_depth(a) elements.
ChainFromRoot(a, s) ==
    /\ Len(s) = place_depth(a).u32
    /\ s[1] = Expr_Local(get_base(a), pos(s[1]))

\* C16: for a place e, all_prefixes(e) starts at the Local of get_base(e) and
\* has place_depth(e) elements.
C16_PrefixesFromRoot ==
    (op.name = "all_prefixes" /\ is_place(expr)) =>
        (out # Panic /\ ChainFromRoot(expr, out.vec))

\* C16 as amended: the same for a place of Local, Field, Variant and AddrOf
\* nodes alone; the prefixes of any other place start at its innermost
\* LabelledOld or Unfolding.
C16_PlainPrefixesFromRoot ==
    (op.name = "all_prefixes" /\ is_place(expr)) =>
        /\ out # Panic
        /\ IsPlainPlace(expr) => ChainFromRoot(expr, out.vec)
        /\ ~ IsPlainPlace(expr) =>
              /\ out.vec[1].k \in {"LabelledOld", "Unfolding"}
              /\ Len(out.vec) < place_depth(expr).u32

\* The chain of a plain place of two steps.
C16_Witness ==
    /\ op.name = "all_prefixes"
    /\ IsPlainPlace(expr)
    /\ out # Panic
    /\ Len(out.vec) = 3
    /\ out.vec[1].k = "Local"
    /\ out.vec[2].k \in {"Field", "Variant"}

\* C17: a place-only accessor called on an expression that is not a place
\* aborts and returns no value.
C17_AccessorsFailFast ==
    (/\ op.name \in {"get_parent", "get_base", "all_prefixes", "place_depth", "get_type"}
     /\ ~ is_place(expr))
    => out = Panic

-----------------------------------------------------------------------------
(* old                                                                     *)

\* e.old(label)
Call_old == \E l \in Labels : Called([name |-> "old", label |-> l], old(expr, l))

\* e.old(label).old(other)
Call_old_again ==
    /\ op.name = "old"
    /\ \E m \in Labels :
          /\ op' = [name |-> "old.old", label |-> op.label, other |-> m, once |-> out]
          /\ out' = old(out, m)
    /\ UNCHANGED expr

NextOldCall == Build \/ Call_old \/ Call_old_again

SpecOldCall == Init /\ [][NextOldCall]_vars

\* C19: e.old(L) is e if e is a Local or a LabelledOld and LabelledOld(L, e)
\* at the default Position otherwise; e.old(L).old(M) is e.old(L); a
\* LabelledOld right under a LabelledOld in the result was there in e.
C19_OldWrapsOnce ==
    /\ op.name = "old" =>
          /\ expr.k \in {"Local", "LabelledOld"} => out = expr
          /\ expr.k \notin {"Local", "LabelledOld"} =>
                out = Expr_LabelledOld(op.label, expr, DefaultPos)
          /\ (out.k = "LabelledOld" /\ out.base.k = "LabelledOld") => out = expr
    /\ op.name = "old.old" =>
          /\ out = op.once
          /\ out = old(expr, op.label)

\* old with another label on what old had wrapped; old on a LabelledOld.
C19_Witness ==
    /\ op.name = "old.old"
    /\ op.other # op.label
    /\ expr.k \notin {"Local", "LabelledOld"}
    /\ out = Expr_LabelledOld(op.label, expr, DefaultPos)

-----------------------------------------------------------------------------
(* patch_types                                                             *)

\* The tables handed to patch_types, each in the orders the iteration of the
\* HashMap may yield its entries.
SubstOrders ==
    LET t_u == [typ |-> "T", subst |-> <<"U">>]
        u_v == [typ |-> "U", subst |-> <<"V">>]
    IN  {<<t_u>>, <<t_u, u_v>>, <<u_v, t_u>>}

\* A function application with a formal parameter and a return type of a
\* reference type; a variable of another reference type.
PatchSeeds ==
    {func_app(<<"fn">>, <<local(var_x)>>, <<var_x>>, TypedRef(name_T), DefaultPos),
     local(var_z)}

InitPatch ==
    /\ expr \in Seeds \cup PatchSeeds
    /\ op = [name |-> "seed", depth |-> 0]
    /\ out = None

\* e.patch_types(substs)
Call_patch_types ==
    \E so \in SubstOrders :
        Called([name |-> "patch_types", substs |-> so], patch_types(expr, so))

NextPatch == Build \/ Call_patch_types

SpecPatch == InitPatch /\ [][NextPatch]_vars

\* a with the type of every Local, the type of every formal parameter of a
\* FuncApp and the name of every PredicateAccessPredicate patched, the ones
\* in the triggers of a quantifier as well when triggers_too; the rest of a
\* is as it was.
RECURSIVE PatchedNodes(_, _, _)
PatchedNodes(a, substs, triggers_too) ==
    LET b == Rebuild(a, [n \in 1..Len(Children(a)) |->
                            IF InTrigger(a, n) /\ ~ triggers_too
                            THEN Children(a)[n]
                            ELSE PatchedNodes(Children(a)[n], substs, triggers_too)])
    IN  CASE a.k = "Local" -> [b EXCEPT !.v.typ = Type_patch(@, substs)]
          [] a.k = "PredicateAccessPredicate" -> [b EXCEPT !.name = patch_name(@, substs)]
          [] a.k = "FuncApp" ->
                [b EXCEPT !.formal_args =
                              [n \in 1..Len(@) |-> [@[n] EXCEPT !.typ = Type_patch(@, substs)]]]
          [] OTHER -> b

-----------------------------------------------------------------------------
(* The constructors on any argument, a place or not                        *)

\* e.variant(index)
Call_variant == Called([name |-> "Expr::variant"], variant(expr, "A"))

\* e.field(f)
Call_field ==
    \E fd \in {field_f, field_g} : Called([name |-> "Expr::field"], field(expr, fd))

\* e.addr_of(), in a build with and without debug_assertions: get_type
\* starts with debug_assert!(self.is_place()).
Call_addr_of ==
    \E d \in BOOLEAN :
        Called([name |-> "Expr::addr_of", debug_assertions |-> d],
               debug_assert(d, is_place(expr), addr_of(expr)))

\* Expr::wrap_in_unfolding(e, body)
Call_wrap_in_unfolding ==
    \E d \in BOOLEAN, body \in Seeds :
        Called([name |-> "Expr::wrap_in_unfolding", debug_assertions |-> d],
               debug_assert(d, is_place(expr), wrap_in_unfolding(expr, body)))

\* The constructors that look at no argument.
Call_connective ==
    \/ Called([name |-> "Expr::not"], not(expr))
    \/ Called([name |-> "Expr::minus"], minus(expr))
    \/ Called([name |-> "Expr::and"], and(expr, expr))
    \/ Called([name |-> "Expr::or"], or(expr, expr))
    \/ Called([name |-> "Expr::implies"], implies(expr, expr))
    \/ Called([name |-> "Expr::ite"], ite(expr, expr, expr))
    \/ Called([name |-> "Expr::labelled_old"], labelled_old("l1", expr))
    \/ Called([name |-> "Expr::acc_permission"], acc_permission(expr, PermAmount_Read))
    \/ Called([name |-> "Expr::predicate_access_predicate"],
              predicate_access_predicate(name_T, expr, PermAmount_Read))
    \/ Called([name |-> "Expr::magic_wand"], magic_wand(expr, expr, NoBorrow))
    \/ Called([name |-> "Expr::forall"], forall(<<var_x>>, << <<expr>> >>, expr))
    \/ Called([name |-> "Expr::unfolding"],
              unfolding(name_T, <<expr>>, expr, PermAmount_Read, NoVariant))
    \/ Called([name |-> "Expr::func_app"],
              func_app(<<"fn">>, <<expr>>, <<var_x>>, Type_Int, DefaultPos))
    \/ Called([name |-> "Expr::rem"], rem(expr, expr))

ConstructorCalls ==
    {"Expr::variant", "Expr::field", "Expr::addr_of", "Expr::wrap_in_unfolding",
     "Expr::not", "Expr::minus", "Expr::and", "Expr::or", "Expr::implies", "Expr::ite",
     "Expr::labelled_old", "Expr::acc_permission", "Expr::predicate_access_predicate",
     "Expr::magic_wand", "Expr::forall", "Expr::unfolding", "Expr::func_app", "Expr::rem"}

NextConstruct ==
    \/ Build
    \/ Do_wrap_non_place
    \/ Call_variant
    \/ Call_field
    \/ Call_addr_of
    \/ Call_wrap_in_unfolding
    \/ Call_connective

SpecConstruct == Init /\ [][NextConstruct]_vars

\* The type get_type finds with the place assertion compiled out: it looks
\* through LabelledOld and Unfolding at the first other node.
RECURSIVE HasTypeAtHead(_)
HasTypeAtHead(a) ==
    CASE a.k \in {"Local", "Variant", "Field", "AddrOf"} -> TRUE
      [] a.k \in {"LabelledOld", "Unfolding"} -> HasTypeAtHead(a.base)
      [] OTHER -> FALSE

\* C21: every constructor returns an expression, whatever its argument.
C21_ConstructorsTotal ==
    op.name \in ConstructorCalls => out # Panic

\* C21 as amended: every constructor returns an expression for whatever
\* argument, but variant, which aborts on every argument that is not a
\* place and returns on a place of a reference type, and addr_of and wrap_in_unfolding, which return on a place and
\* abort on another argument if debug assertions are on or get_type finds no
\* type at its head.
C21_TotalButPlaceBuilders ==
    /\ op.name \in ConstructorCalls \ {"Expr::variant", "Expr::addr_of",
                                       "Expr::wrap_in_unfolding"}
          => out # Panic
    /\ op.name = "Expr::variant" =>
          /\ ~ is_place(expr) => out = Panic
          /\ (is_place(expr) /\ Type_is_ref(get_type(expr))) => out # Panic
    /\ op.name \in {"Expr::addr_of", "Expr::wrap_in_unfolding"} =>
          (out = Panic <=>
              /\ ~ is_place(expr)
              /\ (op.debug_assertions \/ ~ HasTypeAtHead(expr)))

\* variant refused a Field of something that is not a place.
C21_Witness ==
    /\ op.name = "Expr::variant"
    /\ expr.k = "Field"
    /\ ~ is_place(expr)
    /\ out = Panic

-----------------------------------------------------------------------------
(* conjoin, disjoin                                                        *)

\* The sequences an iterator over the built expression and others yields.
JoinedSeqs(a) ==
    {<<>>, <<a>>, <<a, local(var_y)>>, <<Expr_from_bool(FALSE), a, a>>}

\* iter.conjoin()
Call_conjoin ==
    \E s \in JoinedSeqs(expr) : Called([name |-> "conjoin", items |-> s], conjoin(s))

\* iter.disjoin()
Call_disjoin ==
    \E s \in JoinedSeqs(expr) : Called([name |-> "disjoin", items |-> s], disjoin(s))

NextJoin == Build \/ Call_conjoin \/ Call_disjoin

SpecJoin == Init /\ [][NextJoin]_vars

\* The expression n steps to the right of a.
RECURSIVE RightOf(_, _)
RightOf(a, n) == IF n = 0 THEN a ELSE RightOf(a, n - 1).right

\* a is s[1] kind (s[2] kind (... (s[n] kind unit))), every node at the
\* default Position.
RightChain(a, s, kind, unit) ==
    /\ \A n \in 1..Len(s) :
          /\ RightOf(a, n - 1).k = "BinOp"
          /\ RightOf(a, n - 1).op = kind
          /\ RightOf(a, n - 1).pos = DefaultPos
          /\ RightOf(a, n - 1).left = s[n]
    /\ RightOf(a, Len(s)) = Expr_from_bool(unit)

-----------------------------------------------------------------------------
(* The default traversals                                                  *)

\* A walker with every hook as the trait provides it.
Call_walk ==
    Called([name |-> "walk"],
           Vec(walk([kind |-> "Tracer", visited |-> <<>>], expr).visited))

\* A folder with every hook as the trait provides it.
Call_fold ==
    LET r == fold([kind |-> "Tracer", visited |-> <<>>], expr)
    IN  Called([name |-> "fold"], [x |-> r.x, visited |-> r.w.visited])

NextTraverse == Build \/ Call_walk \/ Call_fold

SpecTraverse == Init /\ [][NextTraverse]_vars

\* The nodes of an expression, each before its children, the children left
\* to right; with or without the expressions of a quantifier's triggers.
RECURSIVE Nodes(_, _)
Nodes(a, with_triggers) ==
    LET cs == IF with_triggers THEN Children(a) ELSE WalkedChildren(a)
        RECURSIVE of_all(_)
        of_all(s) == IF s = <<>> THEN <<>> ELSE Nodes(Head(s), with_triggers) \o of_all(Tail(s))
    IN  <<a>> \o of_all(cs)

-----------------------------------------------------------------------------
(* replace_place and the variables of the replacement                      *)

\* A quantifier or a let-binding of y around the expression built so far.
Do_bind_y ==
    /\ Building
    /\ \/ Built("forall", forall(<<var_y>>, <<>>, expr))
       \/ Built("let_expr", let_expr(var_y, Expr_from_int(1), expr))

NextCapture == Build \/ Do_bind_y \/ Call_replace_place

SpecCapture == Init /\ [][NextCapture]_vars

\* The variables that occur in an expression.
VarsOf(a) == {s.v : s \in {n \in SubExprs(a) : n.k = "Local"}}

\* The variables a node binds, and the expressions in their scope.
BoundBy(q) ==
    CASE q.k = "ForAll" -> {q.vars[n] : n \in 1..Len(q.vars)}
      [] q.k = "LetExpr" -> {q.v}
      [] OTHER -> {}

ScopeOf(q) ==
    CASE q.k = "ForAll" -> {s \in SubExprs(q) : s # q}
      [] q.k = "LetExpr" -> SubExprs(q.body)
      [] OTHER -> {}

\* C24: no variable of replacement stands, in the result of replace_place,
\* in the scope of a ForAll or LetExpr that binds a variable of that name and
\* type. Stated for expressions in which no variable of replacement occurs,
\* so that every occurrence in the result comes from replacement.
C24_NoCapture ==
    (/\ Replaced
     /\ VarsOf(op.replacement) \cap VarsOf(expr) = {})
    => \A q \in SubExprs(out) : \A s \in ScopeOf(q) :
          VarsOf(s) \cap BoundBy(q) \cap VarsOf(op.replacement) = {}

-----------------------------------------------------------------------------
(* remove_redundant_old on nested labels                                   *)

\* Expressions with LabelledOld nodes under one another, as labelled_old
\* builds them.
OldSeeds ==
    {labelled_old("l2", labelled_old("l1", place_x_f)),
     labelled_old("l1", place_x_f),
     labelled_old("l1", local(var_x))}

InitNestedOld ==
    /\ expr \in OldSeeds
    /\ op = [name |-> "seed", depth |-> 0]
    /\ out = None

\* e.remove_redundant_old().remove_redundant_old()
Call_remove_redundant_old_again ==
    Called([name |-> "remove_redundant_old.remove_redundant_old"],
           remove_redundant_old(remove_redundant_old(expr)))

NextNestedOld == Build \/ Call_remove_redundant_old \/ Call_remove_redundant_old_again

SpecNestedOld == InitNestedOld /\ [][NextNestedOld]_vars

\* No LabelledOld node of a has the label of its nearest enclosing
\* LabelledOld, cur being the label around a.
RECURSIVE NoRedundantNesting(_, _)
NoRedundantNesting(a, cur) ==
    /\ a.k = "LabelledOld" => a.label # cur
    /\ \A n \in 1..Len(Children(a)) :
          NoRedundantNesting(Children(a)[n], IF a.k = "LabelledOld" THEN a.label ELSE cur)

\* C25: the result of remove_redundant_old has no LabelledOld node whose
\* nearest enclosing LabelledOld has the same label, and applying
\* remove_redundant_old to it again changes nothing.
C25_NoRedundantNestingLeft ==
    /\ op.name = "remove_redundant_old" => NoRedundantNesting(out, "None")
    /\ op.name = "remove_redundant_old.remove_redundant_old" =>
          out = remove_redundant_old(expr)

\* a without the LabelledOld nodes that have the label of their nearest
\* enclosing LabelledOld (cur around a); if collapsing, also without those
\* whose body came out as a Local or a LabelledOld, which a removed node
\* leaves its Position to. The triggers of a ForAll are kept as they are.
RECURSIVE WithoutRedundantOld(_, _, _)
WithoutRedundantOld(a, cur, collapsing) ==
    IF a.k = "LabelledOld"
    THEN LET b == WithoutRedundantOld(a.base, a.label, collapsing)
         IN  IF a.label = cur THEN b
             ELSE IF collapsing /\ b.k \in {"Local", "LabelledOld"} THEN set_pos(b, a.pos)
             ELSE Expr_LabelledOld(a.label, b, a.pos)
    ELSE Rebuild(a, [n \in 1..Len(Children(a)) |->
                        IF InTrigger(a, n)
                        THEN Children(a)[n]
                        ELSE WithoutRedundantOld(Children(a)[n], cur, collapsing)])

\* C26: remove_redundant_old removes the LabelledOld nodes whose nearest
\* enclosing LabelledOld has the same label and no other: every other one
\* is in the result with its label and Position, whatever was processed
\* before it.
C26_OnlySameLabelRemoved ==
    op.name = "remove_redundant_old" => out = WithoutRedundantOld(expr, "None", FALSE)

\* C26 as amended: removed are also the LabelledOld nodes whose processed
\* body is a Local or a LabelledOld; that body takes the removed node's
\* Position.
C26_SameLabelOrCollapsedRemoved ==
    op.name = "remove_redundant_old" => out = WithoutRedundantOld(expr, "None", TRUE)

\* A node was removed and a LabelledOld below another is in the result.
C26_Witness ==
    /\ op.name = "remove_redundant_old"
    /\ out # expr
    /\ out.k = "LabelledOld"
    /\ \E s \in SubExprs(out.base) : s.k = "LabelledOld"

-----------------------------------------------------------------------------
(* Equality, component by component                                         *)

\* a with other formal parameters and another return type in every FuncApp.
RECURSIVE OtherSignature(_)
OtherSignature(a) ==
    LET b == Rebuild(a, [n \in 1..Len(Children(a)) |-> OtherSignature(Children(a)[n])])
    IN  IF b.k = "FuncApp"
        THEN [b EXCEPT !.formal_args = <<var_x>>, !.return_type = Type_Bool]
        ELSE b

\* The expressions the built one is compared with.
Others(a) ==
    {a, set_pos(a, "p1"), set_default_pos(a, "p1"), OtherSignature(a),
     set_default_pos(OtherSignature(a), "p1"), not(a), place_x_f}

\* e == other
Call_eq ==
    /\ op.name \in ConstructorNames
    /\ \E b \in Others(expr) : Called([name |-> "eq", other |-> b], ExprEq(expr, b))

NextEq == Build \/ Call_eq

SpecEq == Init /\ [][NextEq]_vars

\* a with the default Position at every node; if unsigned, also with no
\* formal parameters and no return type in any FuncApp.
RECURSIVE Canonical(_, _)
Canonical(a, unsigned) ==
    LET b == Rebuild([a EXCEPT !.pos = DefaultPos],
                     [n \in 1..Len(Children(a)) |-> Canonical(Children(a)[n], unsigned)])
    IN  IF unsigned /\ b.k = "FuncApp"
        THEN [b EXCEPT !.formal_args = <<>>, !.return_type = None]
        ELSE b

-----------------------------------------------------------------------------
(* Prefixes of a place                                                     *)

\* Places to compare a place with: its prefixes, at other Positions too, and
\* places that are none of its prefixes.
PlacesNear(a) ==
    LET ps == all_prefixes(a).vec
    IN  {ps[n] : n \in 1..Len(ps)}
        \cup {set_default_pos(ps[n], "p1") : n \in 1..Len(ps)}
        \cup {local(var_y), place_x_f, Expr_Field(a, field_g, DefaultPos)}

\* a.has_prefix(b), a.has_proper_prefix(b), a.has_prefix(a), b.has_prefix(c)
\* and a.has_prefix(c), of places a, b and c.
Call_has_prefix ==
    /\ op.name \in ConstructorNames
    /\ is_place(expr)
    /\ \E b \in PlacesNear(expr) : \E c \in PlacesNear(b) :
          Called([name |-> "has_prefix", other |-> b, third |-> c],
                 [ab |-> has_prefix(expr, b),
                  proper |-> has_proper_prefix(expr, b),
                  aa |-> has_prefix(expr, expr),
                  bc |-> has_prefix(b, c),
                  ac |-> has_prefix(expr, c)])

NextPrefix == Build \/ Call_has_prefix

SpecPrefix == Init /\ [][NextPrefix]_vars

\* The place n steps of get_parent above a, None beyond the root.
RECURSIVE NthParent(_, _)
NthParent(a, n) ==
    IF n = 0 \/ a = None THEN a ELSE NthParent(get_parent(a), n - 1)

\* C28: a.has_prefix(b) holds exactly if b equals an element of
\* a.all_prefixes(), that is a or a place reached from a by get_parent;
\* has_proper_prefix holds exactly if moreover a is not equal to b;
\* has_prefix is reflexive and transitive.
C28_PrefixRelation ==
    op.name = "has_prefix" =>
        LET ps == all_prefixes(expr).vec
        IN  /\ out.ab <=> \E n \in 1..Len(ps) : ExprEq(ps[n], op.other)
            /\ out.ab <=> \E n \in 0..Len(ps) :
                              NthParent(expr, n) # None /\ ExprEq(NthParent(expr, n), op.other)
            /\ out.proper <=> (out.ab /\ ~ ExprEq(expr, op.other))
            /\ out.aa
            /\ (out.ab /\ out.bc) => out.ac

\* A place two steps above a, at other Positions, was found to be a proper
\* prefix, and a prefix of that prefix a prefix of a.
C28_Witness ==
    /\ op.name = "has_prefix"
    /\ out.proper
    /\ NthParent(expr, 2) # None
    /\ op.other # NthParent(expr, 2)
    /\ ExprEq(op.other, NthParent(expr, 2))
    /\ op.third # op.other
    /\ out.bc
    /\ out.ac

\* A place that is no prefix was told apart.
C28_WitnessNoPrefix ==
    /\ op.name = "has_prefix"
    /\ expr.k = "Field"
    /\ ~ out.ab
    /\ ~ out.proper
    /\ out.bc
    /\ ~ out.ac

-----------------------------------------------------------------------------
(* patch_types and the order of the table                                  *)

\* The orders in which the entries of the table of so can be iterated.
OrdersOf(so) ==
    {s \in SubstOrders : {s[n] : n \in 1..Len(s)} = {so[n] : n \in 1..Len(so)}}

\* e.patch_types(substs), twice with the same table, each iteration of the
\* table in an order of its own.
Call_patch_types_twice ==
    \E so \in SubstOrders : \E so2 \in OrdersOf(so) :
        Called([name |-> "patch_types.twice", substs |-> so, substs_again |-> so2],
               [first |-> patch_types(expr, so), second |-> patch_types(expr, so2)])

NextPatchOrder == Build \/ Call_patch_types_twice

SpecPatchOrder == InitPatch /\ [][NextPatchOrder]_vars

\* The predicate names of the PredicateAccessPredicate nodes of a.
PredicateNames(a) ==
    {s.name : s \in {n \in SubExprs(a) : n.k = "PredicateAccessPredicate"}}

\* C29: patch_types gives the same result for the same expression and the
\* same table, in whatever order the table is iterated, also when the
\* replacement of one entry holds the name of another. Stated for the
\* predicate names of the result, which the loop over the table patches.
C29_PatchOrderIndependent ==
    op.name = "patch_types.twice" =>
        PredicateNames(out.first) = PredicateNames(out.second)

-----------------------------------------------------------------------------
(* verify (src/prusti/src/verifier.rs)                                     *)
(* In this part expr is the compiler state and the specification verify is *)
(* called with, op the position in verify, and out what verify has done so *)
(* far: the errors the environment has recorded, the state of the          *)
(* verification backend, the verification result and the messages to the   *)
(* user.                                                                   *)

MaxProcedures == 3
MaxSpecLen == 2
MaxBackendErrors == 1

VerificationResult_Success == "Success"
VerificationResult_Failure == "Failure"

\* env.has_errors()
has_errors(env) == env.env_errors > 0

\* The call of verify: let env = Environment::new(state)
InitVerify ==
    /\ expr \in [k : {"CompileState"}, errors : 0..1,
                 procedures : 0..MaxProcedures, spec_len : 0..MaxSpecLen]
    /\ op = [name |-> "verify", pc |-> "enter"]
    /\ out = [env_errors |-> expr.errors, backend |-> "none", result |-> "none",
              messages |-> <<>>]

At(pc) == op.name = "verify" /\ op.pc = pc

Goto(pc) == op' = [op EXCEPT !.pc = pc]

\* Verify_enter that goes on whatever the compiler reported.
Verify_enter_ignoring_errors ==
    /\ At("enter")
    /\ Goto("prepare")
    /\ UNCHANGED <<expr, out>>

\* if env.has_errors() { warn!(..) } else { .. }
Verify_enter ==
    /\ At("enter")
    /\ IF has_errors(out) THEN Goto("exit") ELSE Goto("prepare")
    /\ UNCHANGED <<expr, out>>

\* The verification task, the message about it, and the result of a task
\* without procedures.
Verify_prepare ==
    /\ At("prepare")
    /\ IF expr.procedures = 0
       THEN /\ out' = [out EXCEPT !.messages = Append(@, <<"Verification of items", expr.procedures>>),
                                  !.result = VerificationResult_Success]
            /\ Goto("report")
       ELSE /\ out' = [out EXCEPT !.messages = Append(@, <<"Verification of items", expr.procedures>>)]
            /\ Goto("start")
    /\ UNCHANGED expr

\* dump_borrowck_info, ViperVerifierBuilder::new(), new_verification_context,
\* new_verifier
Verify_start ==
    /\ At("start")
    /\ out' = [out EXCEPT !.backend = "started"]
    /\ Goto("run")
    /\ UNCHANGED expr

\* verifier.verify(&verification_task): the backend answers Success or
\* Failure and may have recorded errors in the environment.
Verify_run ==
    /\ At("run")
    /\ \E r \in {VerificationResult_Success, VerificationResult_Failure},
          e \in 0..MaxBackendErrors :
          out' = [out EXCEPT !.backend = "ran", !.result = r, !.env_errors = @ + e]
    /\ Goto("report")
    /\ UNCHANGED expr

\* match verification_result { Success => message, Failure => message and
\* assert!(env.has_errors()) }
Verify_report ==
    /\ At("report")
    /\ IF out.result = VerificationResult_Success
       THEN /\ out' = [out EXCEPT !.messages = Append(@, <<"Successful verification of items", expr.procedures>>)]
            /\ Goto("exit")
       ELSE /\ out' = [out EXCEPT !.messages = Append(@, <<"Verification failed">>)]
            /\ IF has_errors(out) THEN Goto("exit") ELSE Goto("aborted")
    /\ UNCHANGED expr

NextVerify ==
    \/ Verify_enter
    \/ Verify_prepare
    \/ Verify_start
    \/ Verify_run
    \/ Verify_report

SpecVerify == InitVerify /\ [][NextVerify]_vars

\* C30: the backend is started only if the compiler reported no error and
\* there is an annotated procedure; with compiler errors there is never a
\* verification result; without procedures the result is Success and the
\* backend is not started; verify returns with a Failure only if the
\* environment has recorded errors, and aborts on a Failure without.
C30_BackendOnlyForProceduresWithoutErrors ==
    op.name = "verify" =>
        /\ out.backend # "none" => (expr.errors = 0 /\ expr.procedures >= 1)
        /\ expr.errors > 0 => (out.result = "none" /\ out.backend = "none" /\ op.pc # "aborted")
        /\ (expr.errors = 0 /\ expr.procedures = 0 /\ op.pc \in {"report", "exit"})
              => (out.result = VerificationResult_Success /\ out.backend = "none")
        /\ (expr.errors = 0 /\ expr.procedures = 0) => op.pc # "aborted"
        /\ (op.pc = "exit" /\ out.result = VerificationResult_Failure) => has_errors(out)
        /\ op.pc = "aborted" <=>
              (/\ out.result = VerificationResult_Failure
               /\ ~ has_errors(out)
               /\ out.messages[Len(out.messages)] = <<"Verification failed">>)

\* The backend answered Failure without any recorded error and verify aborted.
C30_Witness ==
    /\ op.name = "verify"
    /\ op.pc = "aborted"
    /\ out.backend = "ran"
    /\ expr.procedures >= 1

\* verify returned after a Failure with recorded errors.
C30_WitnessFailureAccepted ==
    /\ op.name = "verify"
    /\ op.pc = "exit"
    /\ out.result = VerificationResult_Failure
    /\ out.env_errors > 0

-----------------------------------------------------------------------------
(* The whole machine: every constructor and every call                     *)

InitAny == Init \/ InitReadPerm \/ InitPatch \/ InitRem \/ InitNestedOld \/ InitVerify

Next ==
    \/ Build
    \/ Do_wrap_non_place
    \/ Call_set_default_pos
    \/ Call_replace_place
    \/ Call_remove_redundant_old
    \/ Call_map_labels
    \/ Call_filter_perm_conjunction
    \/ Call_is_pure
    \/ Call_compute_footprint
    \/ Call_remove_read_permissions
    \/ Call_rem
    \/ Call_explode_place
    \/ Call_reconstruct_place
    \/ Call_get_parent
    \/ Call_get_base
    \/ Call_get_type
    \/ Call_place_depth
    \/ Call_all_prefixes
    \/ Call_old
    \/ Call_old_again
    \/ Call_patch_types
    \/ Call_variant
    \/ Call_field
    \/ Call_addr_of
    \/ Call_wrap_in_unfolding
    \/ Call_connective
    \/ Call_conjoin
    \/ Call_disjoin
    \/ Call_walk
    \/ Call_fold
    \/ Do_bind_y
    \/ Call_remove_redundant_old_again
    \/ Call_eq
    \/ Call_has_prefix
    \/ Call_patch_types_twice
    \/ NextVerify

Spec == InitAny /\ [][Next]_vars

====
